---- MODULE Spec2Model ----
(***************************************************************************)
(* Trade ledger (src/trading/operations.py, src/db/setup.py) and swap      *)
(* workflow (src/agent/custom_actions/trading/trade.py,                    *)
(* src/trading/trade.py) of the smart-ape trading agent.                   *)
(***************************************************************************)
EXTENDS Integers, Sequences, FiniteSets, TLC

(***************************************************************************)
(* Bounds of the model.                                                    *)
(***************************************************************************)
\* Largest number of rows the trades table holds in the model.
MaxTrades == 2

\* Largest number of rows of the trades table under LiveSpec.
MaxLiveTrades == 1

\* Largest atomic token amount (requested, held, allowed or quoted).
MaxAmount == 2

\* Largest number of addresses under the wallet.
MaxAddresses == 2

\* Largest of the small quotes the minimum output is computed for on its own.
MaxQuote == 5

\* Largest number of rows the arbitrage_opportunities table holds.
MaxOpportunities == 2

\* Latest second of the clock that stamps the trades.
MaxClock == 2

(***************************************************************************)
(* Values.                                                                 *)
(***************************************************************************)
\* SQL NULL / Python None as a tx_hash.
NULL == "NULL"

\* The transaction hashes callers pass around.
Hashes == {"0xa", "0xb"}

HashArgs == Hashes \cup {NULL}

Statuses == {"PENDING", "COMPLETED", "FAILED"}

Terminal == {"COMPLETED", "FAILED"}

\* Wallet references callers pass to the ledger: "0xA" is the agent's wallet
\* address, "0xX" is in no wallet row.
WalletRefs == {"0xA", "0xX"}

\* Result of a wallet lookup that matched no row (fetchone() gave None).
NoWallet == 0

\* No receipt on chain (get_transaction_receipt answers None).
NoReceipt == [found |-> FALSE, status |-> 0]

\* A mined receipt with its success flag (receipt['status']).
Receipt(s) == [found |-> TRUE, status |-> s]

Receipts == {NoReceipt, Receipt(0), Receipt(1)}

\* Outcome of one get_transaction_receipt call: it raised, or it returned.
Raised == [raised |-> TRUE, receipt |-> NoReceipt]

Returned(r) == [raised |-> FALSE, receipt |-> r]

(***************************************************************************)
(* State.                                                                  *)
(***************************************************************************)
VARIABLES
    trades,     \* the trades table, in rowid order
    receipts,   \* the chain: tx_hash -> receipt (or NoReceipt)
    lastOp,     \* the last ledger call: arguments, result, receipt lookups
    lastSwap,   \* the last swap_on_uniswap run: inputs, collaborator calls, result
    allowance,  \* the chain: what the router may spend of the wallet's token_in
    lastApprove, \* the last approve call and the one before it
    lastMinOut, \* the last minimum output computed: quote, slippage, result
    lastTrade,  \* the last execute_trade run: arguments, calls, result
    noted,      \* message and failed step of an earlier failed swap run
    ledgerCall, \* the ledger call running step by step: position, connection
    opportunities, \* the arbitrage_opportunities table, in rowid order
    clock,      \* CURRENT_TIMESTAMP, in seconds
    conns,      \* the ledger calls running concurrently, one per caller
    stream      \* the run_agent stream: chunks yielded to it, events emitted

vars == <<trades, receipts, lastOp, lastSwap, allowance, lastApprove, lastMinOut,
          lastTrade, noted, ledgerCall, opportunities, clock, conns, stream>>

\* What the swap workflow reads and writes.
swapVars == <<lastSwap, allowance, lastApprove, lastMinOut, lastTrade, noted>>

\* History of calls other than the swap run's.
otherVars == <<lastApprove, lastMinOut, lastTrade, noted>>

\* What the ledger's step-by-step calls, its opportunity operations and the
\* agent's stream read and write.
stepVars == <<ledgerCall, opportunities, clock, conns, stream>>

\* What the trade ledger reads and writes.
ledgerVars == <<trades, receipts, lastOp, stepVars>>

(***************************************************************************)
(* The wallet table and the wallet lookup of record_trade.                 *)
(***************************************************************************)
\* Rows of the wallet table: id and the address its info text contains.
WalletTable == <<[id |-> 1, info |-> "0xA"], [id |-> 2, info |-> "0xB"]>>

\* info LIKE '%ref%': the row's text contains the reference.
InfoLike(info, ref) ==
    ref = "" \/ ref = info

\* SELECT id FROM wallet WHERE info LIKE '%ref%'; fetchone()
WalletLookup(ref) ==
    LET hits == {i \in DOMAIN WalletTable : InfoLike(WalletTable[i].info, ref)}
    IN  IF hits = {} THEN NoWallet
        ELSE WalletTable[CHOOSE i \in hits : \A j \in hits : i <= j].id

(***************************************************************************)
(* The trades table.                                                       *)
(***************************************************************************)
\* tx_hash TEXT UNIQUE: a non-NULL hash may be stored once; NULLs never clash.
HashTaken(trs, h) ==
    h # NULL /\ \E i \in DOMAIN trs : trs[i].tx_hash = h

\* INSERT INTO trades (...) VALUES (...): a new row with the next rowid and
\* timestamp DEFAULT CURRENT_TIMESTAMP.
InsertTrade(trs, wid, h, st) ==
    Append(trs, [id |-> Len(trs) + 1, wallet_id |-> wid, tx_hash |-> h, status |-> st,
                 timestamp |-> clock])

\* SELECT status FROM trades WHERE tx_hash = ?; fetchone().  "None" when no
\* row matches; tx_hash = NULL matches no row.
StoredStatus(trs, h) ==
    LET hits == {i \in DOMAIN trs : h # NULL /\ trs[i].tx_hash = h}
    IN  IF hits = {} THEN "None"
        ELSE trs[CHOOSE i \in hits : \A j \in hits : i <= j].status

\* Mutant: the UPDATE also sets the timestamp to the time of the update.
UpdateStatus_Restamps(trs, h, st) ==
    [i \in DOMAIN trs |->
        IF h # NULL /\ trs[i].tx_hash = h
        THEN [trs[i] EXCEPT !.status = st, !.timestamp = clock]
        ELSE trs[i]]

\* UPDATE trades SET status = ? WHERE tx_hash = ?
UpdateStatus(trs, h, st) ==
    [i \in DOMAIN trs |->
        IF h # NULL /\ trs[i].tx_hash = h THEN [trs[i] EXCEPT !.status = st]
        ELSE trs[i]]

\* Mutant: any receipt counts as success.
NewStatus_AnyReceipt(receipt) ==
    "COMPLETED"

\* new_status = 'COMPLETED' if receipt['status'] == 1 else 'FAILED'
NewStatus(receipt) ==
    IF receipt.status = 1 THEN "COMPLETED" ELSE "FAILED"

\* Mutant: the chain is asked whatever the stored status is.
NeedsLookup_Always(status) ==
    TRUE

\* if status == 'PENDING': only then is the chain asked.
NeedsLookup(status) ==
    status = "PENDING"

(***************************************************************************)
(* record_trade                                                            *)
(***************************************************************************)
\* The status argument of a call that passes none.
Omitted == "omitted"

StatusArgs == Statuses \cup {Omitted}

\* status: str = 'PENDING': the status a call stores.
StatusParam(st) ==
    IF st = Omitted THEN "PENDING" ELSE st

\* Mutant: a reference that matches no wallet is stored under the id 0.
RecordTradeRun_SyntheticWallet(trs, ref, h, st) ==
    LET wid == WalletLookup(ref)
    IN  IF HashTaken(trs, h)
        THEN [trades |-> trs, ret |-> "False", log |-> "Error recording trade"]
        ELSE [trades |-> InsertTrade(trs, wid, h, st), ret |-> "True", log |-> "none"]

\* Mutant: tx_hash without UNIQUE: a hash already stored is stored again.
RecordTradeRun_NoUnique(trs, ref, h, st) ==
    LET wid == WalletLookup(ref)
    IN  IF wid = NoWallet
        THEN [trades |-> trs, ret |-> "False", log |-> "Wallet not found for address"]
        ELSE [trades |-> InsertTrade(trs, wid, h, st), ret |-> "True", log |-> "none"]

\* The whole of record_trade: the table afterwards, the returned bool and
\* the error logged.  The INSERT of a tx_hash already stored raises, which
\* rolls the connection back.
RecordTradeRun(trs, ref, h, st) ==
    LET wid == WalletLookup(ref)
    IN  IF wid = NoWallet
        THEN [trades |-> trs, ret |-> "False", log |-> "Wallet not found for address"]
        ELSE IF HashTaken(trs, h)
        THEN [trades |-> trs, ret |-> "False", log |-> "Error recording trade"]
        ELSE [trades |-> InsertTrade(trs, wid, h, st), ret |-> "True", log |-> "none"]

NoLookups == [h \in {} |-> Raised]

RecordTrade(ref, h, st) ==
    /\ LET r == RecordTradeRun(trades, ref, h, StatusParam(st))
       IN  /\ Len(r.trades) <= MaxTrades
           /\ trades' = r.trades
           /\ lastOp' = [op |-> "record_trade", ref |-> ref, tx |-> h, st |-> st,
                         ret |-> r.ret, log |-> r.log,
                         pre |-> StoredStatus(trades, h), looked |-> <<>>,
                         out |-> NoLookups]
    /\ UNCHANGED <<receipts, swapVars, stepVars>>

(***************************************************************************)
(* get_trade_status                                                        *)
(***************************************************************************)
\* Mutant: a missing receipt is answered with None instead of PENDING.
GetTradeStatusRun_NoneWhenUnmined(trs, h, o) ==
    LET status == StoredStatus(trs, h)
    IN  IF status = "None" THEN
            [trades |-> trs, ret |-> "None", looked |-> <<>>]
        ELSE IF NeedsLookup(status) THEN
            IF o.raised THEN
                [trades |-> trs, ret |-> "None", looked |-> <<h>>]
            ELSE IF o.receipt.found THEN
                [trades |-> UpdateStatus(trs, h, NewStatus(o.receipt)),
                 ret |-> NewStatus(o.receipt), looked |-> <<h>>]
            ELSE
                [trades |-> trs, ret |-> "None", looked |-> <<h>>]
        ELSE
            [trades |-> trs, ret |-> status, looked |-> <<>>]

\* Mutant: the chain is asked before the ledger, so also for unknown hashes.
GetTradeStatusRun_LookupFirst(trs, h, o) ==
    LET status == StoredStatus(trs, h)
    IN  IF o.raised THEN
            [trades |-> trs, ret |-> "None", looked |-> <<h>>]
        ELSE IF status = "None" THEN
            [trades |-> trs, ret |-> "None", looked |-> <<h>>]
        ELSE IF NeedsLookup(status) /\ o.receipt.found THEN
            [trades |-> UpdateStatus(trs, h, NewStatus(o.receipt)),
             ret |-> NewStatus(o.receipt), looked |-> <<h>>]
        ELSE
            [trades |-> trs, ret |-> status, looked |-> <<h>>]

\* Mutant: a lookup that raises marks the trade FAILED and says so.
GetTradeStatusRun_FailedOnRaise(trs, h, o) ==
    LET status == StoredStatus(trs, h)
    IN  IF status = "None" THEN
            [trades |-> trs, ret |-> "None", looked |-> <<>>]
        ELSE IF NeedsLookup(status) THEN
            IF o.raised THEN
                [trades |-> UpdateStatus(trs, h, "FAILED"), ret |-> "FAILED",
                 looked |-> <<h>>]
            ELSE IF o.receipt.found THEN
                [trades |-> UpdateStatus(trs, h, NewStatus(o.receipt)),
                 ret |-> NewStatus(o.receipt), looked |-> <<h>>]
            ELSE
                [trades |-> trs, ret |-> "PENDING", looked |-> <<h>>]
        ELSE
            [trades |-> trs, ret |-> status, looked |-> <<>>]

\* The whole of get_trade_status, given what the receipt lookup would do.
GetTradeStatusRun(trs, h, o) ==
    LET status == StoredStatus(trs, h)
    IN  IF status = "None" THEN
            [trades |-> trs, ret |-> "None", looked |-> <<>>]
        ELSE IF NeedsLookup(status) THEN
            IF o.raised THEN
                [trades |-> trs, ret |-> "None", looked |-> <<h>>]
            ELSE IF o.receipt.found THEN
                [trades |-> UpdateStatus(trs, h, NewStatus(o.receipt)),
                 ret |-> NewStatus(o.receipt), looked |-> <<h>>]
            ELSE
                [trades |-> trs, ret |-> "PENDING", looked |-> <<h>>]
        ELSE
            [trades |-> trs, ret |-> status, looked |-> <<>>]

\* What web3.eth.get_transaction_receipt(h) can do now: answer with the
\* chain's receipt for h, or raise.
LookupOutcomes(h) ==
    IF h = NULL THEN {Raised} ELSE {Raised, Returned(receipts[h])}

Seen(looked, f) ==
    [h \in {looked[i] : i \in DOMAIN looked} |-> f[h]]

GetTradeStatus(h) ==
    \E o \in LookupOutcomes(h) :
        LET r == GetTradeStatusRun(trades, h, o)
        IN  /\ trades' = r.trades
            /\ lastOp' = [op |-> "get_trade_status", ref |-> "", tx |-> h, st |-> "",
                          ret |-> r.ret, log |-> "none",
                          pre |-> StoredStatus(trades, h), looked |-> r.looked,
                          out |-> Seen(r.looked, [x \in {h} |-> o])]
            /\ UNCHANGED <<receipts, swapVars, stepVars>>

(***************************************************************************)
(* update_pending_trades                                                   *)
(***************************************************************************)
RECURSIVE PendingFrom_All(_, _)
\* Mutant: the sweep selects every trade, whatever its status.
PendingFrom_All(trs, i) ==
    IF i > Len(trs) THEN <<>>
    ELSE <<trs[i].tx_hash>> \o PendingFrom_All(trs, i + 1)

RECURSIVE PendingFrom_FirstOnly(_, _)
\* Mutant: fetchone() for fetchall(): only the first pending trade is selected.
PendingFrom_FirstOnly(trs, i) ==
    IF i > Len(trs) THEN <<>>
    ELSE IF trs[i].status = "PENDING" THEN <<trs[i].tx_hash>>
    ELSE PendingFrom_FirstOnly(trs, i + 1)

RECURSIVE PendingFrom(_, _)
\* SELECT tx_hash FROM trades WHERE status = 'PENDING'; fetchall(), from row i.
PendingFrom(trs, i) ==
    IF i > Len(trs) THEN <<>>
    ELSE IF trs[i].status = "PENDING" THEN <<trs[i].tx_hash>> \o PendingFrom(trs, i + 1)
    ELSE PendingFrom(trs, i + 1)

PendingHashes(trs) == PendingFrom(trs, 1)

\* One turn of the loop for tx_hash h, whose receipt lookup does o: a receipt
\* updates the row, no receipt leaves it, a raise is logged and skipped.
SweepOne(trs, h, o) ==
    IF o.raised THEN trs
    ELSE IF o.receipt.found THEN UpdateStatus(trs, h, NewStatus(o.receipt))
    ELSE trs

RECURSIVE SweepFrom_AbortOnRaise(_, _, _, _)
\* Mutant: no try/except inside the loop: the first raise ends the sweep.
SweepFrom_AbortOnRaise(trs, pend, i, outs) ==
    IF i > Len(pend) THEN trs
    ELSE IF outs[pend[i]].raised THEN trs
    ELSE SweepFrom_AbortOnRaise(SweepOne(trs, pend[i], outs[pend[i]]), pend, i + 1, outs)

RECURSIVE SweepFrom(_, _, _, _)
\* The loop over pending_trades from position i; outs gives each lookup's outcome.
SweepFrom(trs, pend, i, outs) ==
    IF i > Len(pend) THEN trs
    ELSE SweepFrom(SweepOne(trs, pend[i], outs[pend[i]]), pend, i + 1, outs)

\* Mutant: the final commit is missing, so the updates are lost.
UpdatePendingTradesRun_NoCommit(trs, outs) ==
    [trades |-> trs, looked |-> PendingHashes(trs)]

\* The whole of update_pending_trades: select, loop, commit.
UpdatePendingTradesRun(trs, outs) ==
    LET pend == PendingHashes(trs)
    IN  [trades |-> SweepFrom(trs, pend, 1, outs), looked |-> pend]

\* The outcomes the lookups of one sweep have when those for the hashes in
\* fails raise: the others answer with the chain's receipt.  A lookup of the
\* NULL hash of a trade recorded without tx_hash always raises.
SweepOutcomes(fails) ==
    [h \in HashArgs |-> IF h \in fails \/ h = NULL THEN Raised ELSE Returned(receipts[h])]

Sweep(fails) ==
    LET r == UpdatePendingTradesRun(trades, SweepOutcomes(fails))
    IN  /\ trades' = r.trades
        /\ lastOp' = [op |-> "update_pending_trades", ref |-> "", tx |-> NULL, st |-> "",
                      log |-> "none",
                      ret |-> "None", pre |-> "None", looked |-> r.looked,
                      out |-> Seen(r.looked, SweepOutcomes(fails))]
        /\ UNCHANGED <<receipts, swapVars, stepVars>>

UpdatePendingTrades ==
    \E fails \in SUBSET Hashes : Sweep(fails)

(***************************************************************************)
(* get_trade_status and update_pending_trades step by step: the connection *)
(* scope ("with sqlite3.connect(...) as con"), the receipt lookup inside   *)
(* it and the commit.  An UPDATE is seen by the connection only (work)     *)
(* until con.commit() writes it to the table.                              *)
(***************************************************************************)
\* No ledger call is running.
NoCall ==
    [op |-> "none", pc |-> "idle", tx |-> NULL, con |-> FALSE, net |-> FALSE,
     before |-> <<>>, work |-> <<>>, pend |-> <<>>, i |-> 0, ret |-> "none",
     rows |-> <<>>, ref |-> "", limit |-> 0]

\* get_trade_status(h) up to its receipt lookup: the connection is opened
\* and the status selected; an unknown hash or a terminal status returns at
\* once, a PENDING one starts the lookup with the connection open.
StatusConnect(h) ==
    /\ ledgerCall = NoCall
    /\ LET status == StoredStatus(trades, h)
           c == [NoCall EXCEPT !.op = "get_trade_status", !.tx = h, !.before = trades,
                               !.work = trades]
       IN  ledgerCall' = IF status = "None" THEN [c EXCEPT !.pc = "returned", !.ret = "None"]
                   ELSE IF NeedsLookup(status)
                   THEN [c EXCEPT !.pc = "lookup", !.con = TRUE, !.net = TRUE]
                   ELSE [c EXCEPT !.pc = "returned", !.ret = status]
    /\ UNCHANGED <<trades, receipts, lastOp, swapVars, opportunities, clock, conns, stream>>

\* get_trade_status from the answer of its receipt lookup: update and
\* commit, or return PENDING, or return None after a raise.
StatusAnswer ==
    /\ ledgerCall.op = "get_trade_status"
    /\ ledgerCall.pc = "lookup"
    /\ \E o \in LookupOutcomes(ledgerCall.tx) :
          LET r == GetTradeStatusRun(trades, ledgerCall.tx, o)
          IN  /\ trades' = r.trades
              /\ ledgerCall' = [ledgerCall EXCEPT !.pc = "returned", !.con = FALSE, !.net = FALSE,
                                      !.work = r.trades, !.ret = r.ret]
    /\ UNCHANGED <<receipts, lastOp, swapVars, opportunities, clock, conns, stream>>

\* update_pending_trades up to its loop: the connection is opened and the
\* pending hashes are selected.
SweepConnect ==
    /\ ledgerCall = NoCall
    /\ ledgerCall' = [NoCall EXCEPT !.op = "update_pending_trades", !.pc = "loop",
                              !.con = TRUE, !.before = trades, !.work = trades,
                              !.pend = PendingHashes(trades), !.i = 1]
    /\ UNCHANGED <<trades, receipts, lastOp, swapVars, opportunities, clock, conns, stream>>

\* The loop starts the receipt lookup of its next trade.
SweepLookup ==
    /\ ledgerCall.op = "update_pending_trades"
    /\ ledgerCall.pc = "loop"
    /\ ledgerCall.i <= Len(ledgerCall.pend)
    /\ ledgerCall' = [ledgerCall EXCEPT !.pc = "lookup", !.net = TRUE]
    /\ UNCHANGED <<trades, receipts, lastOp, swapVars, opportunities, clock, conns, stream>>

\* The lookup answers or raises: the UPDATE, if any, is executed on the
\* connection and the loop goes on to the next trade.
SweepAnswer ==
    /\ ledgerCall.op = "update_pending_trades"
    /\ ledgerCall.pc = "lookup"
    /\ \E o \in LookupOutcomes(ledgerCall.pend[ledgerCall.i]) :
          ledgerCall' = [ledgerCall EXCEPT !.pc = "loop", !.net = FALSE, !.i = @ + 1,
                               !.work = SweepOne(@, ledgerCall.pend[ledgerCall.i], o)]
    /\ UNCHANGED <<trades, receipts, lastOp, swapVars, opportunities, clock, conns, stream>>

\* After the loop: con.commit() writes the updates and the call returns.
SweepCommit ==
    /\ ledgerCall.op = "update_pending_trades"
    /\ ledgerCall.pc = "loop"
    /\ ledgerCall.i > Len(ledgerCall.pend)
    /\ trades' = ledgerCall.work
    /\ ledgerCall' = [ledgerCall EXCEPT !.pc = "returned", !.con = FALSE, !.ret = "None"]
    /\ UNCHANGED <<receipts, lastOp, swapVars, opportunities, clock, conns, stream>>

\* The sweep is interrupted between two trades (the process is stopped, or
\* an exception that is no Exception, such as KeyboardInterrupt, leaves the
\* with block): what was not committed is rolled back.
SweepInterrupted ==
    /\ ledgerCall.op = "update_pending_trades"
    /\ ledgerCall.pc = "loop"
    /\ 1 < ledgerCall.i
    /\ ledgerCall.i <= Len(ledgerCall.pend)
    /\ ledgerCall' = [ledgerCall EXCEPT !.pc = "interrupted", !.con = FALSE]
    /\ UNCHANGED <<trades, receipts, lastOp, swapVars, opportunities, clock, conns, stream>>

\* The caller has taken the result, or the agent has been started again.
CallTaken ==
    /\ ledgerCall.pc \in {"returned", "interrupted"}
    /\ ledgerCall' = NoCall
    /\ UNCHANGED <<trades, receipts, lastOp, swapVars, opportunities, clock, conns, stream>>

(***************************************************************************)
(* The arbitrage_opportunities table.  profit_percentage is a TEXT column: *)
(* a text is the sequence of its characters.                               *)
(***************************************************************************)
\* The characters of a decimal text, in the order of their code points, from
\* "-" (45) to "9" (57).
Chars == <<"-", ".", "/", "0", "1", "2", "3", "4", "5", "6", "7", "8", "9">>

CodePoint(c) ==
    44 + CHOOSE i \in DOMAIN Chars : Chars[i] = c

\* The profit percentages recorded: 9, 10, -5 and -10 as texts.
ProfitTexts == {<<"9">>, <<"1", "0">>, <<"-", "5">>, <<"-", "1", "0">>}

RECURSIVE TextLess(_, _)
\* a < b for TEXT values (BINARY collation): the first differing character
\* decides, a proper prefix is less.
TextLess(a, b) ==
    IF a = <<>> THEN b # <<>>
    ELSE IF b = <<>> THEN FALSE
    ELSE IF a[1] = b[1] THEN TextLess(Tail(a), Tail(b))
    ELSE CodePoint(a[1]) < CodePoint(b[1])

RECURSIVE DigitsValue(_, _)
\* The number a run of digits stands for, after the value acc of the digits
\* before it.
DigitsValue(text, acc) ==
    IF text = <<>> THEN acc
    ELSE DigitsValue(Tail(text), 10 * acc + (CodePoint(text[1]) - CodePoint("0")))

\* The signed decimal value of a text without fraction.
DecimalValue(text) ==
    IF text[1] = "-" THEN 0 - DigitsValue(Tail(text), 0) ELSE DigitsValue(text, 0)

\* INSERT INTO arbitrage_opportunities (...) VALUES (?, ?, ?, 'DETECTED')
InsertOpportunity(opps, profit) ==
    Append(opps, [id |-> Len(opps) + 1, profit_percentage |-> profit,
                  status |-> "DETECTED"])

\* record_arbitrage_opportunity(token_path, profit_percentage, min_input_amount)
RecordArbitrageOpportunity(profit) ==
    /\ ledgerCall = NoCall
    /\ Len(opportunities) < MaxOpportunities
    /\ opportunities' = InsertOpportunity(opportunities, profit)
    /\ UNCHANGED <<trades, receipts, lastOp, swapVars, ledgerCall, clock, conns, stream>>

\* A collaborator outside the ledger gives an opportunity another status.
OpportunityClosed(k) ==
    /\ ledgerCall = NoCall
    /\ k \in DOMAIN opportunities
    /\ opportunities[k].status = "DETECTED"
    /\ opportunities' = [opportunities EXCEPT ![k].status = "EXPIRED"]
    /\ UNCHANGED <<trades, receipts, lastOp, swapVars, ledgerCall, clock, conns, stream>>

RECURSIVE DetectedFrom(_, _)
\* WHERE status = 'DETECTED', from row k, in rowid order.
DetectedFrom(opps, k) ==
    IF k > Len(opps) THEN <<>>
    ELSE IF opps[k].status = "DETECTED" THEN <<opps[k]>> \o DetectedFrom(opps, k + 1)
    ELSE DetectedFrom(opps, k + 1)

RECURSIVE PlaceDesc(_, _)
\* The row put into rows sorted by profit_percentage DESC, after the rows
\* whose text is not less than its own.
PlaceDesc(sorted, row) ==
    IF sorted = <<>> THEN <<row>>
    ELSE IF TextLess(sorted[1].profit_percentage, row.profit_percentage)
    THEN <<row>> \o sorted
    ELSE <<sorted[1]>> \o PlaceDesc(Tail(sorted), row)

RECURSIVE OrderByProfitDesc(_, _)
\* ORDER BY profit_percentage DESC of the first n rows: the column's TEXT
\* values are compared; rows with equal texts stay in rowid order.
OrderByProfitDesc(rows, n) ==
    IF n = 0 THEN <<>> ELSE PlaceDesc(OrderByProfitDesc(rows, n - 1), rows[n])

\* get_active_arbitrage_opportunities(): the rows returned.
ActiveOpportunities(opps) ==
    LET detected == DetectedFrom(opps, 1)
    IN  OrderByProfitDesc(detected, Len(detected))

GetActiveArbitrageOpportunities ==
    /\ ledgerCall = NoCall
    /\ ledgerCall' = [NoCall EXCEPT !.op = "get_active_arbitrage_opportunities",
                                    !.pc = "returned",
                                    !.rows = ActiveOpportunities(opportunities)]
    /\ UNCHANGED <<trades, receipts, lastOp, swapVars, opportunities, clock, conns, stream>>

(***************************************************************************)
(* get_recent_trades                                                       *)
(***************************************************************************)
\* A second passes.
Tick ==
    /\ clock < MaxClock
    /\ clock' = clock + 1
    /\ UNCHANGED <<trades, receipts, lastOp, swapVars, ledgerCall, opportunities, conns, stream>>

\* The wallet references get_recent_trades is called with: "0xB" is the
\* address of the second wallet row.
RecentRefs == WalletRefs \cup {"0xB"}

\* WHERE wallet_id = ?
TradesOfWallet(trs, wid) ==
    {trs[k] : k \in {n \in DOMAIN trs : trs[n].wallet_id = wid}}

\* Mutant: ORDER BY timestamp ASC.
RecentOrders_OldestFirst(rows) ==
    {q \in [1 .. Cardinality(rows) -> rows] :
        /\ \A m \in DOMAIN q, n \in DOMAIN q : m # n => q[m] # q[n]
        /\ \A m \in DOMAIN q, n \in DOMAIN q : m < n => q[m].timestamp <= q[n].timestamp}

\* ORDER BY timestamp DESC: every order of the rows in which no row comes
\* before a row with a later timestamp; rows of the same second come in
\* any order.
RecentOrders(rows) ==
    {q \in [1 .. Cardinality(rows) -> rows] :
        /\ \A m \in DOMAIN q, n \in DOMAIN q : m # n => q[m] # q[n]
        /\ \A m \in DOMAIN q, n \in DOMAIN q : m < n => q[m].timestamp >= q[n].timestamp}

\* LIMIT ?
Limited(q, limit) ==
    SubSeq(q, 1, IF limit < Len(q) THEN limit ELSE Len(q))

\* The whole of get_recent_trades: the lists it can return.
GetRecentTradesRuns(trs, ref, limit) ==
    LET wid == WalletLookup(ref)
    IN  IF wid = NoWallet THEN {<<>>}
        ELSE {Limited(q, limit) : q \in RecentOrders(TradesOfWallet(trs, wid))}

GetRecentTrades(ref, limit) ==
    /\ ledgerCall = NoCall
    /\ \E rows \in GetRecentTradesRuns(trades, ref, limit) :
          ledgerCall' = [NoCall EXCEPT !.op = "get_recent_trades", !.pc = "returned",
                                      !.ref = ref, !.limit = limit, !.rows = rows]
    /\ UNCHANGED <<trades, receipts, lastOp, swapVars, opportunities, clock, conns, stream>>

(***************************************************************************)
(* The chain.                                                              *)
(***************************************************************************)
\* A transaction is mined: its receipt appears and never changes afterwards.
Mine(h, s) ==
    /\ receipts[h] = NoReceipt
    /\ receipts' = [receipts EXCEPT ![h] = Receipt(s)]
    /\ UNCHANGED <<trades, lastOp, swapVars, stepVars>>

(***************************************************************************)
(* Ledger calls of concurrent callers.  Each call opens its own connection *)
(* to the same database file: a SELECT reads the committed table, the      *)
(* first INSERT or UPDATE of a connection takes the database's write lock  *)
(* and keeps it until its commit or rollback, and a connection that finds  *)
(* the lock held gets "database is locked" when its timeout runs out.      *)
(***************************************************************************)
\* The callers.
Procs == {1, 2}

\* A caller with no ledger call running.
NoConn ==
    [op |-> "none", pc |-> "idle", ref |-> "", tx |-> NULL, fresh |-> FALSE,
     st |-> "", pend |-> <<>>, i |-> 0, writing |-> FALSE, work |-> <<>>,
     ret |-> "none"]

\* No other connection holds the write lock.
LockFree(p) ==
    \A q \in Procs \ {p} : ~conns[q].writing

\* Caller p calls record_trade(ref, h, ...) with status 'PENDING',
\* get_trade_status(h) or update_pending_trades(): sqlite3.connect.
ConnCall(p, op, ref, h) ==
    /\ conns[p] = NoConn
    /\ op = "record_trade" =>
          Len(trades) + Cardinality({q \in Procs : /\ conns[q].op = "record_trade"
                                                   /\ conns[q].pc # "done"}) < MaxTrades
    /\ conns' = [conns EXCEPT ![p] =
                    [NoConn EXCEPT !.op = op, !.pc = "select", !.ref = ref, !.tx = h,
                                   !.fresh = ~HashTaken(trades, h)]]
    /\ UNCHANGED <<trades, receipts, lastOp, swapVars, ledgerCall, opportunities, clock,
                   stream>>

\* Mutant: the INSERT does not wait for the write lock.
RecordStep_NoLock(p) ==
    LET c == conns[p]
        r == RecordTradeRun(trades, c.ref, c.tx, "PENDING")
    IN  /\ c.op = "record_trade"
        /\ \/ /\ c.pc = "select"
              /\ conns' = [conns EXCEPT ![p] =
                              IF r.ret = "True"
                              THEN [c EXCEPT !.pc = "commit", !.writing = TRUE,
                                             !.work = r.trades]
                              ELSE [c EXCEPT !.pc = "done", !.ret = "False"]]
              /\ trades' = trades
           \/ /\ c.pc = "commit"
              /\ trades' = c.work
              /\ conns' = [conns EXCEPT ![p] =
                              [c EXCEPT !.pc = "done", !.writing = FALSE, !.work = <<>>,
                                        !.ret = "True"]]
        /\ UNCHANGED <<receipts, lastOp, swapVars, ledgerCall, opportunities, clock, stream>>

\* One step of record_trade for caller p: the wallet lookup and the INSERT,
\* which fails on an unknown wallet, a held lock or a tx_hash already in
\* the table; then con.commit() and return True.
RecordStep(p) ==
    LET c == conns[p]
        r == RecordTradeRun(trades, c.ref, c.tx, "PENDING")
    IN  /\ c.op = "record_trade"
        /\ \/ /\ c.pc = "select"
              /\ conns' = [conns EXCEPT ![p] =
                              IF LockFree(p) /\ r.ret = "True"
                              THEN [c EXCEPT !.pc = "commit", !.writing = TRUE,
                                             !.work = r.trades]
                              ELSE [c EXCEPT !.pc = "done", !.ret = "False"]]
              /\ trades' = trades
           \/ /\ c.pc = "commit"
              /\ trades' = c.work
              /\ conns' = [conns EXCEPT ![p] =
                              [c EXCEPT !.pc = "done", !.writing = FALSE, !.work = <<>>,
                                        !.ret = "True"]]
        /\ UNCHANGED <<receipts, lastOp, swapVars, ledgerCall, opportunities, clock, stream>>

\* Mutant: a lookup that finds no receipt writes the status it had read back
\* to the row.
StatusStep_WritesBack(p) ==
    LET c == conns[p]
        status == StoredStatus(trades, c.tx)
    IN  /\ c.op = "get_trade_status"
        /\ \/ /\ c.pc = "select"
              /\ conns' = [conns EXCEPT ![p] =
                              IF status = "None" THEN [c EXCEPT !.pc = "done", !.ret = "None"]
                              ELSE IF NeedsLookup(status) THEN [c EXCEPT !.pc = "lookup"]
                              ELSE [c EXCEPT !.pc = "done", !.ret = status]]
              /\ trades' = trades
           \/ /\ c.pc = "lookup"
              /\ \E o \in LookupOutcomes(c.tx) :
                    conns' = [conns EXCEPT ![p] =
                                 IF o.raised THEN [c EXCEPT !.pc = "done", !.ret = "None"]
                                 ELSE IF o.receipt.found
                                 THEN [c EXCEPT !.pc = "update", !.st = NewStatus(o.receipt)]
                                 ELSE [c EXCEPT !.pc = "update", !.st = "PENDING"]]
              /\ trades' = trades
           \/ /\ c.pc = "update"
              /\ conns' = [conns EXCEPT ![p] =
                              IF LockFree(p)
                              THEN [c EXCEPT !.pc = "commit", !.writing = TRUE,
                                             !.work = UpdateStatus(trades, c.tx, c.st)]
                              ELSE [c EXCEPT !.pc = "done", !.ret = "None"]]
              /\ trades' = trades
           \/ /\ c.pc = "commit"
              /\ trades' = c.work
              /\ conns' = [conns EXCEPT ![p] =
                              [c EXCEPT !.pc = "done", !.writing = FALSE, !.work = <<>>,
                                        !.ret = c.st]]
        /\ UNCHANGED <<receipts, lastOp, swapVars, ledgerCall, opportunities, clock, stream>>

\* One step of get_trade_status for caller p: the SELECT of the status; for
\* a PENDING trade the receipt lookup; for a receipt the UPDATE, which
\* fails on a held lock; then con.commit() and the new status.
StatusStep(p) ==
    LET c == conns[p]
        status == StoredStatus(trades, c.tx)
    IN  /\ c.op = "get_trade_status"
        /\ \/ /\ c.pc = "select"
              /\ conns' = [conns EXCEPT ![p] =
                              IF status = "None" THEN [c EXCEPT !.pc = "done", !.ret = "None"]
                              ELSE IF NeedsLookup(status) THEN [c EXCEPT !.pc = "lookup"]
                              ELSE [c EXCEPT !.pc = "done", !.ret = status]]
              /\ trades' = trades
           \/ /\ c.pc = "lookup"
              /\ \E o \in LookupOutcomes(c.tx) :
                    conns' = [conns EXCEPT ![p] =
                                 IF o.raised THEN [c EXCEPT !.pc = "done", !.ret = "None"]
                                 ELSE IF o.receipt.found
                                 THEN [c EXCEPT !.pc = "update", !.st = NewStatus(o.receipt)]
                                 ELSE [c EXCEPT !.pc = "done", !.ret = "PENDING"]]
              /\ trades' = trades
           \/ /\ c.pc = "update"
              /\ conns' = [conns EXCEPT ![p] =
                              IF LockFree(p)
                              THEN [c EXCEPT !.pc = "commit", !.writing = TRUE,
                                             !.work = UpdateStatus(trades, c.tx, c.st)]
                              ELSE [c EXCEPT !.pc = "done", !.ret = "None"]]
              /\ trades' = trades
           \/ /\ c.pc = "commit"
              /\ trades' = c.work
              /\ conns' = [conns EXCEPT ![p] =
                              [c EXCEPT !.pc = "done", !.writing = FALSE, !.work = <<>>,
                                        !.ret = c.st]]
        /\ UNCHANGED <<receipts, lastOp, swapVars, ledgerCall, opportunities, clock, stream>>

\* One step of update_pending_trades for caller p: the SELECT of the pending
\* hashes; for each the receipt lookup and, for a receipt, the UPDATE, an
\* exception of either being logged and the loop going on; after the last
\* the one con.commit().
SweepStep(p) ==
    LET c == conns[p]
        table == IF c.writing THEN c.work ELSE trades
    IN  /\ c.op = "update_pending_trades"
        /\ \/ /\ c.pc = "select"
              /\ conns' = [conns EXCEPT ![p] =
                              [c EXCEPT !.pc = "loop", !.pend = PendingHashes(trades),
                                        !.i = 1]]
              /\ trades' = trades
           \/ /\ c.pc = "loop"
              /\ c.i <= Len(c.pend)
              /\ \E o \in LookupOutcomes(c.pend[c.i]) :
                    conns' = [conns EXCEPT ![p] =
                                 IF ~o.raised /\ o.receipt.found
                                 THEN [c EXCEPT !.pc = "update", !.st = NewStatus(o.receipt)]
                                 ELSE [c EXCEPT !.i = @ + 1]]
              /\ trades' = trades
           \/ /\ c.pc = "update"
              /\ conns' = [conns EXCEPT ![p] =
                              IF LockFree(p)
                              THEN [c EXCEPT !.pc = "loop", !.writing = TRUE, !.i = @ + 1,
                                             !.work = UpdateStatus(table, c.pend[c.i], c.st)]
                              ELSE [c EXCEPT !.pc = "loop", !.i = @ + 1]]
              /\ trades' = trades
           \/ /\ c.pc = "loop"
              /\ c.i > Len(c.pend)
              /\ trades' = table
              /\ conns' = [conns EXCEPT ![p] =
                              [c EXCEPT !.pc = "done", !.writing = FALSE, !.work = <<>>,
                                        !.ret = "swept"]]
        /\ UNCHANGED <<receipts, lastOp, swapVars, ledgerCall, opportunities, clock, stream>>

\* Caller p has taken what its call returned.
ConnTaken(p) ==
    /\ conns[p].pc = "done"
    /\ conns' = [conns EXCEPT ![p] = NoConn]
    /\ UNCHANGED <<trades, receipts, lastOp, swapVars, ledgerCall, opportunities, clock,
                   stream>>

(***************************************************************************)
(* The swap workflow: approve, get_uniswap_quote and swap_on_uniswap, in   *)
(* its two copies: "agent" is src/agent/custom_actions/trading/trade.py,   *)
(* "trading" is src/trading/trade.py.  A collaborator's possible outcomes  *)
(* make a set of runs; each step below gives the runs from that step on.   *)
(***************************************************************************)
Variants == {"agent", "trading"}

\* amount_in, a decimal string in whole units: text that is no number, or a
\* number given by its value in atomic units, atomic plus (when frac) a
\* fraction of one atomic unit.
AmountsIn ==
    {[parses |-> FALSE, atomic |-> 0, frac |-> FALSE],
     [parses |-> TRUE, atomic |-> -1, frac |-> FALSE]} \cup
    {[parses |-> TRUE, atomic |-> a, frac |-> f] : a \in 0 .. MaxAmount, f \in BOOLEAN}

\* slippage, in hundredths of a percent (0.5 % is 50); nothing restricts it.
Slippages == {-5000, -100, 0, 50, 100, 15000}

\* The wallet's addresses' balances of token_in, in atomic units.
BalanceLists ==
    UNION {[1 .. n -> 0 .. MaxAmount] : n \in 1 .. MaxAddresses}

RECURSIVE SumTo(_, _)
\* balance += address.balance(token_in_address), over the first n addresses.
SumTo(bals, n) ==
    IF n = 0 THEN 0 ELSE SumTo(bals, n - 1) + bals[n]

\* Mutant: the test is < 0, so an amount of zero passes validation.
AmountRejected_NegativeOnly(amt) ==
    amt.atomic < 0

\* float(amount_in) <= 0
AmountRejected(amt) ==
    amt.atomic < 0 \/ (amt.atomic = 0 /\ ~amt.frac)

\* int(token_in.to_atomic_amount(Decimal(amount_in))): int() drops the fraction.
ToAtomicAmount(amt) ==
    amt.atomic

(***************************************************************************)
(* Python arithmetic of the minimum output.  An int is a sequence of       *)
(* 14-bit digits, least significant first, without leading zeros; a float  *)
(* is a double: sign, mantissa (an int of at most Precision bits) and      *)
(* exponent, standing for mantissa * 2^exp.                                *)
(***************************************************************************)
\* Bits of a double's mantissa.
Precision == 53

\* The base of the digits.
Base == 2 ^ 14

RECURSIVE Trim(_)
\* Drop leading zeros.
Trim(a) ==
    IF a = <<>> \/ a[Len(a)] # 0 THEN a ELSE Trim(SubSeq(a, 1, Len(a) - 1))

RECURSIVE FromInt(_)
\* The digits of a natural number.
FromInt(n) ==
    IF n = 0 THEN <<>> ELSE <<n % Base>> \o FromInt(n \div Base)

RECURSIVE ToInt(_)
\* The natural number of some digits.
ToInt(a) ==
    IF a = <<>> THEN 0 ELSE a[1] + Base * ToInt(Tail(a))

Rest(a) == IF a = <<>> THEN <<>> ELSE Tail(a)

Digit(a) == IF a = <<>> THEN 0 ELSE a[1]

RECURSIVE AddC(_, _, _)
\* a + b + carry
AddC(a, b, c) ==
    IF a = <<>> /\ b = <<>> THEN (IF c = 0 THEN <<>> ELSE <<c>>)
    ELSE LET d == Digit(a) + Digit(b) + c
         IN  <<d % Base>> \o AddC(Rest(a), Rest(b), d \div Base)

Add(a, b) == Trim(AddC(a, b, 0))

RECURSIVE SubC(_, _, _)
\* a - b - borrow, for a >= b + borrow
SubC(a, b, c) ==
    IF a = <<>> THEN <<>>
    ELSE LET d == Digit(a) - Digit(b) - c
         IN  <<d % Base>> \o SubC(Rest(a), Rest(b), IF d < 0 THEN 1 ELSE 0)

Sub(a, b) == Trim(SubC(a, b, 0))

RECURSIVE MulC(_, _, _)
\* a * m + carry, for a digit m
MulC(a, m, c) ==
    IF a = <<>> THEN (IF c = 0 THEN <<>> ELSE <<c>>)
    ELSE LET d == a[1] * m + c
         IN  <<d % Base>> \o MulC(Tail(a), m, d \div Base)

RECURSIVE Mul(_, _)
\* a * b
Mul(a, b) ==
    IF a = <<>> \/ b = <<>> THEN <<>>
    ELSE Add(Trim(MulC(b, a[1], 0)), Trim(<<0>> \o Mul(Tail(a), b)))

RECURSIVE FromDecimal(_)
\* int(text) for decimal digits, most significant first.
FromDecimal(ds) ==
    IF ds = <<>> THEN <<>>
    ELSE Trim(MulC(FromDecimal(SubSeq(ds, 1, Len(ds) - 1)), 10, ds[Len(ds)]))

RECURSIVE RemFrom(_, _, _)
\* The remainder by d of the number made of the digits of a from the i-th up.
RemFrom(a, d, i) ==
    IF i > Len(a) THEN 0 ELSE (Base * RemFrom(a, d, i + 1) + a[i]) % d

\* a // d for a small d > 0
FloorDiv(a, d) ==
    Trim([i \in 1 .. Len(a) |-> (Base * RemFrom(a, d, i + 1) + a[i]) \div d])

\* The number of bits of a.
BitLen(a) ==
    IF a = <<>> THEN 0
    ELSE 14 * (Len(a) - 1) + Cardinality({k \in 0 .. 13 : 2 ^ k <= a[Len(a)]})

\* The i-th bit of a, the least significant being the first.
BitAt(a, i) ==
    LET at == (i - 1) \div 14 + 1
    IN  IF at > Len(a) THEN 0 ELSE (a[at] \div 2 ^ ((i - 1) % 14)) % 2

\* a // 2^k
ShiftRight(a, k) ==
    LET w == k \div 14
        b == k % 14
    IN  Trim([i \in 1 .. Len(a) - w |->
                 (a[i + w] \div 2 ^ b) +
                 (IF i + w < Len(a) THEN (a[i + w + 1] % 2 ^ b) * 2 ^ (14 - b) ELSE 0)])

\* a * 2^k
ShiftLeft(a, k) ==
    IF a = <<>> THEN <<>>
    ELSE [i \in 1 .. k \div 14 |-> 0] \o Trim(MulC(a, 2 ^ (k % 14), 0))

\* Round an exact mantissa to Precision bits, to nearest, ties to even.
RoundBits(m) ==
    IF BitLen(m) <= Precision THEN [man |-> m, exp |-> 0]
    ELSE LET k == BitLen(m) - Precision
             hi == ShiftRight(m, k)
             up == /\ BitAt(m, k) = 1
                   /\ (BitAt(hi, 1) = 1 \/ \E i \in 1 .. k - 1 : BitAt(m, i) = 1)
         IN  [man |-> IF up THEN Add(hi, <<1>>) ELSE hi, exp |-> k]

\* float(n) for an int n >= 0
Float(n) ==
    [neg |-> FALSE] @@ RoundBits(n)

RECURSIVE FracFrom(_, _, _)
\* The first k digits after the point of r / d, for r < d, least significant
\* first, preceded by a digit telling whether more follow.
FracFrom(r, d, k) ==
    IF k = 0 THEN <<IF r > 0 THEN 1 ELSE 0>>
    ELSE FracFrom((Base * r) % d, d, k - 1) \o <<(Base * r) \div d>>

\* The double nearest to n / d, for small ints n >= 0 and d > 0: the quotient
\* to enough digits that the last one rounds as the exact value does.
FloatDiv(n, d) ==
    LET k == Precision \div 14 + 3
        r == RoundBits(Trim(FracFrom(n % d, d, k) \o FromInt(n \div d)))
    IN  [neg |-> FALSE, man |-> r.man, exp |-> r.exp - 14 * (k + 1)]

\* 1 - x for a double x >= 0 with exp <= 0; the sign tells whether x > 1.
OneMinus(x) ==
    LET one == ShiftLeft(<<1>>, -x.exp)
        neg == BitLen(x.man) >= BitLen(one) /\ x.man # one
        r == RoundBits(IF neg THEN Sub(x.man, one) ELSE Sub(one, x.man))
    IN  [neg |-> neg, man |-> r.man, exp |-> r.exp + x.exp]

\* 1 + x for a double x >= 0 with exp <= 0
OnePlus(x) ==
    LET r == RoundBits(Add(ShiftLeft(<<1>>, -x.exp), x.man))
    IN  [neg |-> FALSE, man |-> r.man, exp |-> r.exp + x.exp]

\* x * y for doubles
FloatMul(x, y) ==
    LET r == RoundBits(Mul(x.man, y.man))
    IN  [neg |-> (x.neg # y.neg) /\ r.man # <<>>, man |-> r.man,
         exp |-> r.exp + x.exp + y.exp]

\* int(x) for a double x: what follows the point is dropped.
IntOfFloat(x) ==
    LET m == IF x.exp >= 0 THEN ShiftLeft(x.man, x.exp) ELSE ShiftRight(x.man, -x.exp)
    IN  [neg |-> x.neg /\ m # <<>>, digits |-> m]

\* 1 - slippage / 100, slippage in hundredths of a percent and a double
\* itself (a multiple of a quarter percent).
KeptShare(slippage) ==
    IF slippage >= 0 THEN OneMinus(FloatDiv(slippage, 10000))
    ELSE OnePlus(FloatDiv(-slippage, 10000))

\* int(float(quote) * (1 - slippage / 100)), the quote an int of any size.
MinAmountOutOf(quote, slippage) ==
    IntOfFloat(FloatMul(Float(quote), KeptShare(slippage)))

\* int(float(quote) * (1 - slippage / 100))
MinAmountOut(quote, slippage) ==
    LET out == MinAmountOutOf(FromInt(quote), slippage)
    IN  IF out.neg THEN -ToInt(out.digits) ELSE ToInt(out.digits)

\* The minimum outputs of the quotes and slippages of the swap runs.
MinAmountOuts ==
    [q \in 0 .. MaxAmount, sl \in Slippages |-> MinAmountOut(q, sl)]

\* Quotes for the minimum output on its own: the small ones, 1000 and
\* 50000000000000000.
MinOutQuotes ==
    {FromInt(q) : q \in 0 .. MaxQuote} \cup
    {FromInt(1000), FromDecimal(<<5, 0, 0, 0, 0, 0, 0, 0, 0, 0, 0, 0, 0, 0, 0, 0, 0>>)}

\* Slippages for the minimum output on its own: 0.5 % and the whole percents
\* below 100.
MinOutSlippages ==
    {50} \cup {100 * pc : pc \in 0 .. 99}

\* No minimum output computed.
NoMinOut ==
    [quote |-> <<>>, slippage |-> -1, out |-> [neg |-> FALSE, digits |-> <<>>]]

\* min_amount_out = str(int(float(quote) * (1 - slippage / 100))), computed
\* when the last one was taken.
ComputeMinOut(quote, slippage) ==
    /\ lastMinOut = NoMinOut
    /\ lastMinOut' = [quote |-> quote, slippage |-> slippage,
                      out |-> MinAmountOutOf(quote, slippage)]
    /\ UNCHANGED <<lastSwap, allowance, lastApprove, lastTrade, noted, ledgerVars>>

\* The minimum output has gone into the swap's arguments.
MinOutTaken ==
    /\ lastMinOut # NoMinOut
    /\ lastMinOut' = NoMinOut
    /\ UNCHANGED <<lastSwap, allowance, lastApprove, lastTrade, noted, ledgerVars>>

\* The agent copy's balance test: atomic_balance == 0 or atomic_balance < atomic_amount_in.
InsufficientAgent(have, need) ==
    have = 0 \/ have < need

\* The trading copy's balance test: balance < int(atomic_amount_in).
InsufficientTrading(have, need) ==
    have < need

\* token_out.from_atomic_amount(Decimal(min_amount_out)): the amount in whole
\* units that stands for n atomic units.
FromAtomicAmount(n) ==
    [parses |-> TRUE, atomic |-> n, frac |-> FALSE]

\* The values a returned message is formatted from: none but in the success
\* message.
NoMessage ==
    [amount_in |-> [parses |-> FALSE, atomic |-> 0, frac |-> FALSE],
     amount_out |-> [parses |-> FALSE, atomic |-> 0, frac |-> FALSE], tx |-> NULL]

\* "fee": 3000, the 0.3 % fee tier.
FeeTier == 3000

\* The seconds from now to the deadline: time.time() + 1800.
DeadlineSeconds == 1800

\* No swap parameters.
NoArgs ==
    [tokenIn |-> "", tokenOut |-> "", fee |-> 0, recipient |-> "", deadline |-> 0,
     amountIn |-> -1, amountOutMinimum |-> -1, sqrtPriceLimitX96 |-> -1]

\* swap_args, as assembled after the quote: the run's token addresses and
\* recipient as given, the atomic input amount and the minimum output.
SwapArgs(run) ==
    [tokenIn |-> "token_in_address", tokenOut |-> "token_out_address", fee |-> FeeTier,
     recipient |-> "recipient", deadline |-> clock + DeadlineSeconds,
     amountIn |-> run.need, amountOutMinimum |-> run.min_amount_out,
     sqrtPriceLimitX96 |-> 0]

\* A run before its first step.
NewRun(variant, amt, slippage, allow) ==
    [variant |-> variant, amount_in |-> amt, slippage |-> slippage, calls |-> <<>>,
     need |-> -1, have |-> -1, allow |-> allow, approval |-> <<>>,
     quoteCall |-> "none", quote |-> -1,
     min_amount_out |-> -1, swap_args |-> NoArgs, estimated |-> NoArgs,
     submitted |-> NoArgs, gas |-> "none", swap |-> "none", tx |-> NULL,
     said |-> NoMessage, ret |-> "none"]

NoSwap == NewRun("none", [parses |-> FALSE, atomic |-> 0, frac |-> FALSE], 0, 0)

\* return <message>
Finish(run, ret) ==
    [run EXCEPT !.ret = ret]

\* One more collaborator call made.
Called(run, name) ==
    [run EXCEPT !.calls = Append(@, name)]

\* Mutant: the allowance is read but not compared; the approval is always
\* submitted.
ApproveResults_AlwaysSubmit(allow, amount) ==
    {[ret |-> <<"Error", "exception">>, allow |-> allow, calls |-> <<"allowance">>,
      outcome |-> "read raised", args |-> -1],
     [ret |-> <<"Error", "exception">>, allow |-> allow,
      calls |-> <<"allowance", "approve">>,
      outcome |-> "approve raised", args |-> amount],
     [ret |-> <<"Error", "Approval failed">>, allow |-> allow,
      calls |-> <<"allowance", "approve">>,
      outcome |-> "reverted", args |-> amount],
     [ret |-> <<"Approved successfully">>, allow |-> amount,
      calls |-> <<"allowance", "approve">>,
      outcome |-> "success", args |-> amount]}

\* Mutant: the approval is submitted for more than the requested amount.
ApproveResults_OneMore(allow, amount) ==
    {[ret |-> <<"Error", "exception">>, allow |-> allow, calls |-> <<"allowance">>,
      outcome |-> "read raised", args |-> -1]}
    \cup
    (IF allow >= amount
     THEN {[ret |-> <<"Already approved">>, allow |-> allow, calls |-> <<"allowance">>,
            outcome |-> "sufficient", args |-> -1]}
     ELSE {[ret |-> <<"Error", "exception">>, allow |-> allow,
            calls |-> <<"allowance", "approve">>,
            outcome |-> "approve raised", args |-> amount + 1],
           [ret |-> <<"Error", "Approval failed">>, allow |-> allow,
            calls |-> <<"allowance", "approve">>,
            outcome |-> "reverted", args |-> amount + 1],
           [ret |-> <<"Approved successfully">>, allow |-> amount + 1,
            calls |-> <<"allowance", "approve">>,
            outcome |-> "success", args |-> amount + 1]})

\* approve(): the allowance read, then "Already approved", or the approval
\* for exactly amount and its result.  Each result: the returned message (as
\* its parts), the allowance afterwards, the calls made (each one a
\* wallet.invoke_contract submission), what happened, and the amount the
\* approval was submitted with (-1: none was submitted).
ApproveResults(allow, amount) ==
    {[ret |-> <<"Error", "exception">>, allow |-> allow, calls |-> <<"allowance">>,
      outcome |-> "read raised", args |-> -1]}
    \cup
    (IF allow >= amount
     THEN {[ret |-> <<"Already approved">>, allow |-> allow, calls |-> <<"allowance">>,
            outcome |-> "sufficient", args |-> -1]}
     ELSE {[ret |-> <<"Error", "exception">>, allow |-> allow,
            calls |-> <<"allowance", "approve">>,
            outcome |-> "approve raised", args |-> amount],
           [ret |-> <<"Error", "Approval failed">>, allow |-> allow,
            calls |-> <<"allowance", "approve">>,
            outcome |-> "reverted", args |-> amount],
           [ret |-> <<"Approved successfully">>, allow |-> amount,
            calls |-> <<"allowance", "approve">>,
            outcome |-> "success", args |-> amount]})

\* amount as callers of approve pass it: a string, of a whole number or not.
ApproveAmounts ==
    {[parses |-> FALSE, value |-> 0]} \cup
    {[parses |-> TRUE, value |-> a] : a \in 0 .. MaxAmount}

\* No approve call yet.
NoApprove ==
    [amount |-> [parses |-> FALSE, value |-> 0], pre |-> 0, ret |-> <<"none">>,
     calls |-> <<>>, outcome |-> "none", args |-> -1, spent |-> FALSE,
     prev |-> [amount |-> [parses |-> FALSE, value |-> 0], ret |-> <<"none">>,
               calls |-> <<>>, spent |-> FALSE]]

\* The results of approve for an amount string: int(amount) raises, after the
\* allowance was read, for a string that is no whole number.
ApproveRun(allow, amount) ==
    IF amount.parses
    THEN ApproveResults(allow, amount.value)
    ELSE {[ret |-> <<"Error", "exception">>, allow |-> allow, calls |-> <<"allowance">>,
           outcome |-> "amount raised", args |-> -1]}

\* approve(wallet, user_address, token_address, spender, amount), called on
\* its own for the router as spender.
Approve(amount) ==
    /\ \E a \in ApproveRun(allowance, amount) :
          /\ allowance' = a.allow
          /\ lastApprove' =
                [amount |-> amount, pre |-> allowance, ret |-> a.ret, calls |-> a.calls,
                 outcome |-> a.outcome, args |-> a.args, spent |-> FALSE,
                 prev |-> [amount |-> lastApprove.amount, ret |-> lastApprove.ret,
                           calls |-> lastApprove.calls, spent |-> lastApprove.spent]]
    /\ UNCHANGED <<lastSwap, lastMinOut, lastTrade, noted, ledgerVars>>

\* The router spends some of its allowance: a swap of the wallet's token_in
\* was mined.
Spend(n) ==
    /\ n \in 1 .. allowance
    /\ allowance' = allowance - n
    /\ lastApprove' = [lastApprove EXCEPT !.spent = TRUE]
    /\ UNCHANGED <<lastSwap, lastMinOut, lastTrade, noted, ledgerVars>>

\* approval_result.startswith("Error")
StartsWithError(msg) ==
    msg[1] = "Error"

\* wallet.estimate_gas(..., method="exactInputSingle", args=swap_args)
EstimateGasCall(run) ==
    [Called(run, "estimate_gas") EXCEPT !.estimated = run.swap_args]

\* Mutant: the parameters are assembled again for the submission, with the
\* quote as the minimum output.
InvokeSwapCall_Reassembled(run) ==
    [Called(run, "exactInputSingle") EXCEPT
        !.submitted = [SwapArgs(run) EXCEPT !.amountOutMinimum = run.quote]]

\* wallet.invoke_contract(..., method="exactInputSingle", args=swap_args)
InvokeSwapCall(run) ==
    [Called(run, "exactInputSingle") EXCEPT !.submitted = run.swap_args]

\* Mutant: the message shows the quoted amount.
SuccessMessage_FromQuote(run) ==
    [amount_in |-> run.amount_in, amount_out |-> FromAtomicAmount(run.quote),
     tx |-> run.tx]

\* "Successfully swapped {amount_in} ... for at least {amount_out} ...
\* Transaction hash: {invocation.transaction_hash}", amount_out being the
\* minimum output in whole units.
SuccessMessage(run) ==
    [amount_in |-> run.amount_in, amount_out |-> FromAtomicAmount(run.min_amount_out),
     tx |-> run.tx]

\* Execute the swap: the invocation raises before it is broadcast, or it is
\* broadcast with some hash and reverts or is mined; after a mined swap
\* token_out is fetched and the success message formatted.
SubmitStep(run) ==
    LET c == InvokeSwapCall(run)
    IN  {Finish([c EXCEPT !.swap = "raised"], "Error executing swap")}
        \cup UNION {
            LET m == Called([c EXCEPT !.swap = "mined", !.tx = h, !.allow = @ - c.need],
                            "Asset.fetch")
            IN  {Finish([c EXCEPT !.swap = "reverted", !.tx = h], "Error executing swap"),
                 Finish(m, "Error executing swap"),
                 Finish([m EXCEPT !.said = SuccessMessage(m)], "Successfully swapped")} :
            h \in Hashes}

\* Mutant: a gas estimate that raised is asked for once more.
GasStep_RetryOnce(run) ==
    LET c == EstimateGasCall(run)
        d == EstimateGasCall(c)
    IN  {Finish([d EXCEPT !.gas = "raised"], "Error estimating gas"),
         Finish([c EXCEPT !.gas = "error"], "Error estimating gas")}
        \cup SubmitStep([d EXCEPT !.gas = "ok"])
        \cup SubmitStep([c EXCEPT !.gas = "ok"])

\* Mutant: the swap is submitted whatever the gas estimate says.
GasStep_SubmitAnyway(run) ==
    LET c == EstimateGasCall(run)
    IN  SubmitStep([c EXCEPT !.gas = "raised"]) \cup SubmitStep([c EXCEPT !.gas = "error"])
        \cup SubmitStep([c EXCEPT !.gas = "ok"])

\* Estimate gas: a raise or an estimate with an error ends the run.
GasStep(run) ==
    LET c == EstimateGasCall(run)
    IN  {Finish([c EXCEPT !.gas = "raised"], "Error estimating gas"),
         Finish([c EXCEPT !.gas = "error"], "Error estimating gas")}
        \cup SubmitStep([c EXCEPT !.gas = "ok"])

\* What the router's quoteExactInputSingle call does: it reverts (no pool for
\* the pair), raises (no connection) or answers an amount.
QuoteCalls ==
    {[kind |-> "reverted", amount |-> 0], [kind |-> "raised", amount |-> 0]} \cup
    {[kind |-> "answered", amount |-> q] : q \in 0 .. MaxAmount}

\* Mutant: a failed call is answered with a quote of zero.
GetUniswapQuote_ZeroOnFailure(call) ==
    [raised |-> FALSE, quote |-> call.amount]

\* get_uniswap_quote: str(quote) of the amount answered; any exception of the
\* call is raised again as "Failed to get quote: ...".
GetUniswapQuote(call) ==
    IF call.kind = "answered" THEN [raised |-> FALSE, quote |-> call.amount]
    ELSE [raised |-> TRUE, quote |-> 0]

\* Get quote and calculate minimum output; prepare swap parameters.
QuoteStep(run) ==
    UNION {LET c == [Called(run, "quoteExactInputSingle") EXCEPT !.quoteCall = call.kind]
               r == GetUniswapQuote(call)
           IN  IF r.raised THEN {Finish(c, "Error getting quote")}
               ELSE LET q == [c EXCEPT !.quote = r.quote,
                                       !.min_amount_out =
                                           MinAmountOuts[r.quote, c.slippage]]
                    IN  GasStep([q EXCEPT !.swap_args = SwapArgs(q)]) :
           call \in QuoteCalls}

\* Mutant: the run goes on to the quote whatever approve returned.
ApproveStep_IgnoreError(run) ==
    UNION {QuoteStep([run EXCEPT !.calls = @ \o a.calls, !.allow = a.allow,
                                 !.approval = a.ret]) :
           a \in ApproveResults(run.allow, run.need)}

\* Approve Uniswap router if needed.
ApproveStep(run) ==
    UNION {LET c == [run EXCEPT !.calls = @ \o a.calls, !.allow = a.allow,
                                !.approval = a.ret]
           IN  IF StartsWithError(a.ret)
               THEN {Finish(c, "Error approving Uniswap Router as spender")}
               ELSE QuoteStep(c) :
               a \in ApproveResults(run.allow, run.need)}

\* Check balance, agent copy: the balances of all addresses are summed; a
\* balance read may raise.
BalanceStepAgent(run) ==
    UNION {
        {Finish([run EXCEPT !.calls = @ \o [i \in 1 .. k |-> "address.balance"]],
                "Error in swap operation") : k \in 1 .. Len(bals)}
        \cup
        (LET c == [run EXCEPT !.calls = @ \o [i \in 1 .. Len(bals) |-> "address.balance"],
                              !.have = SumTo(bals, Len(bals))]
         IN  IF InsufficientAgent(c.have, c.need)
             THEN {Finish(c, "Error: Insufficient balance")}
             ELSE ApproveStep(c)) :
        bals \in BalanceLists}

\* Check balance, trading copy: one balanceOf invocation, which may raise or
\* report failure.
BalanceStepTrading(run) ==
    LET c == Called(run, "balanceOf")
    IN  {Finish(c, "Error in swap operation"), Finish(c, "Error checking balance")}
        \cup UNION {LET d == [c EXCEPT !.have = b]
                    IN  IF InsufficientTrading(d.have, d.need)
                        THEN {Finish(d, "Error: Insufficient balance")}
                        ELSE ApproveStep(d) :
                        b \in 0 .. MaxAmount}

\* Convert input amount to atomic units: Asset.fetch may raise.
ConvertStep(run) ==
    LET c == Called(run, "Asset.fetch")
        d == [c EXCEPT !.need = ToAtomicAmount(c.amount_in)]
    IN  {Finish(c, "Error in swap operation")}
        \cup (IF run.variant = "agent" THEN BalanceStepAgent(d) ELSE BalanceStepTrading(d))

\* Mutant: the amount is parsed outside the try block, so the exception of an
\* unparsable amount leaves swap_on_uniswap.
ValidateStep_ParseOutsideTry(run) ==
    IF ~run.amount_in.parses THEN {Finish(run, "exception")}
    ELSE IF AmountRejected(run.amount_in)
    THEN {Finish(run, "Error: Input amount must be greater than 0")}
    ELSE ConvertStep(run)

\* Input validation: float(amount_in) raises for text that is no number.
ValidateStep(run) ==
    IF ~run.amount_in.parses THEN {Finish(run, "Error in swap operation")}
    ELSE IF AmountRejected(run.amount_in)
    THEN {Finish(run, "Error: Input amount must be greater than 0")}
    ELSE ConvertStep(run)

\* The caller has taken the string swap_on_uniswap returned.
SwapReturned ==
    /\ lastSwap # NoSwap
    /\ lastSwap' = NoSwap
    /\ UNCHANGED <<allowance, otherVars, ledgerVars>>

\* The step at which a run that did not report a swap failed, from what the
\* run did.
FailedStep(run) ==
    IF run.calls = <<>> THEN "validation"
    ELSE IF run.approval = <<>> THEN "balance check"
    ELSE IF StartsWithError(run.approval) THEN "approval"
    ELSE IF run.quoteCall # "answered" THEN "quote"
    ELSE IF run.gas # "ok" THEN "gas estimation"
    ELSE "swap execution"

\* Nothing noted.
NothingNoted == <<"none", "none">>

\* The caller has taken the string swap_on_uniswap returned and, when it is
\* an error, noted it with the step the run failed at.
SwapNoted ==
    /\ lastSwap # NoSwap
    /\ lastSwap' = NoSwap
    /\ noted' = IF lastSwap.ret = "Successfully swapped" THEN noted
                ELSE <<lastSwap.ret, FailedStep(lastSwap)>>
    /\ UNCHANGED <<allowance, lastApprove, lastMinOut, lastTrade, ledgerVars>>

\* No execute_trade run.
NoTrade ==
    [by |-> "none", wallet |-> "", amount_in |-> 0, min_amount_out |-> 0, gas |-> "none",
     calls |-> <<>>, tx |-> NULL, recorded |-> "None", log |-> "none", ret |-> "none"]

\* execute_trade(uniswap_client, trading_ops, token_in, token_out, amount_in,
\* min_amount_out, wallet_address): each possible run with the trades table
\* it leaves.  The gas estimate raises, is 0 or is positive; the client's
\* execute_trade raises, returns None or returns a transaction hash, which
\* is recorded as PENDING and returned whatever record_trade answers.
ExecuteTradeRuns(trs, ref, amount_in, min_amount_out) ==
    LET run == [NoTrade EXCEPT !.wallet = ref, !.amount_in = amount_in,
                               !.min_amount_out = min_amount_out,
                               !.calls = <<"estimate_gas">>]
        sub == [run EXCEPT !.gas = "positive", !.calls = Append(@, "execute_trade")]
    IN  {[trades |-> trs,
          run |-> [run EXCEPT !.gas = "raised", !.log = "Trade execution failed",
                              !.ret = NULL]],
         [trades |-> trs,
          run |-> [run EXCEPT !.gas = "zero", !.log = "Failed to estimate gas",
                              !.ret = NULL]],
         [trades |-> trs,
          run |-> [sub EXCEPT !.log = "Trade execution failed", !.ret = NULL]]}
        \cup
        {LET r == RecordTradeRun(trs, ref, h, "PENDING")
         IN  [trades |-> r.trades,
              run |-> [sub EXCEPT !.calls = Append(@, "record_trade"), !.tx = h,
                                  !.recorded = r.ret,
                                  !.log = "Trade executed successfully", !.ret = h]] :
         h \in Hashes}

\* One whole run of execute_trade, called when no run's result is waiting
\* for the caller.
ExecuteTrade(ref, amount_in, min_amount_out) ==
    /\ lastSwap = NoSwap
    /\ lastTrade = NoTrade
    /\ \E r \in ExecuteTradeRuns(trades, ref, amount_in, min_amount_out) :
          /\ Len(r.trades) <= MaxTrades
          /\ trades' = r.trades
          /\ lastTrade' = r.run
    /\ UNCHANGED <<receipts, lastOp, lastSwap, allowance, lastApprove, lastMinOut, noted,
                   stepVars>>

\* The agent actions that trade.
TradeActions == {"trade_usdc_for_btc", "trade_usdc_for_eth"}

\* Decimal amounts of execute_trade are counted in hundredths of a unit, the
\* two decimal places of Decimal('0.99').
TradeUnit == 100

\* The amounts content can name: the digits found by re.search(r'\d+', ...),
\* as a whole number of units, or -1 when content has no digit.
ContentAmounts == -1 .. MaxAmount

\* amount * Decimal('0.99'), in hundredths.
MinOutOfAmount(amount) ==
    (amount * 99) \div 100

\* handle_agent_action(agent_action, content) for a trade action: content
\* without digits raises, which is logged; otherwise execute_trade is called
\* with the amount, 99 % of the amount as min_amount_out and the wallet id
\* of get_wallet_info.  No quote is asked for.
HandleAgentActionRun(action, amount, ref) ==
    /\ lastSwap = NoSwap
    /\ lastTrade = NoTrade
    /\ IF amount < 0
       THEN /\ lastTrade' = [NoTrade EXCEPT !.by = action,
                                            !.log = "Error handling agent action"]
            /\ trades' = trades
       ELSE \E r \in ExecuteTradeRuns(trades, ref, amount * TradeUnit,
                                      MinOutOfAmount(amount * TradeUnit)) :
               /\ Len(r.trades) <= MaxTrades
               /\ trades' = r.trades
               /\ lastTrade' = [r.run EXCEPT !.by = action]
    /\ UNCHANGED <<receipts, lastOp, lastSwap, allowance, lastApprove, lastMinOut, noted,
                   ledgerCall, opportunities, clock, conns>>

\* handle_agent_action called on its own.
HandleAgentAction(action, amount, ref) ==
    /\ HandleAgentActionRun(action, amount, ref)
    /\ UNCHANGED stream

\* The caller has taken what execute_trade returned.
TradeReturned ==
    /\ lastTrade # NoTrade
    /\ lastTrade' = NoTrade
    /\ UNCHANGED <<lastSwap, allowance, lastApprove, lastMinOut, noted, ledgerVars>>

(***************************************************************************)
(* run_agent: the asynchronous generator that turns the chunks the agent   *)
(* executor yields into SSE events.                                        *)
(***************************************************************************)
\* The chunks an executor yields, at most.
MaxChunks == 3

\* run_agent is not running.
NoStream ==
    [pc |-> "idle", yielded |-> <<>>, events |-> <<>>, ended |-> FALSE, failed |-> FALSE]

\* The chunks of an executor: "agent" and "tools" chunks whose first message
\* has a content, empty or not, and for tools a name; chunks with neither
\* key.
Chunks ==
    {[kind |-> "agent", name |-> "", content |-> c] : c \in {"", "Swapping 1 USDC"}}
    \cup {[kind |-> "tools", name |-> n, content |-> c] :
             n \in TradeActions \cup {"get_balance"},
             c \in {"", "Swapped 1 USDC", "Done"}}
    \cup {[kind |-> "other", name |-> "", content |-> ""]}

\* Decimal(re.search(r'\d+', content).group()): the first number in the
\* content, -1 for a content with none.
ContentAmount(content) ==
    IF content \in {"Swapped 1 USDC", "Swapping 1 USDC"} THEN 1 ELSE -1

\* The event emitted for a chunk that has a content.
ChunkEvent(chunk) ==
    [event |-> chunk.kind, data |-> chunk.content,
     functions |-> IF chunk.kind = "tools" THEN <<chunk.name>> ELSE <<>>]

\* The event emitted for an exception e: "Error: " followed by str(e).
ErrorEvent(e) ==
    [event |-> "error", data |-> e, functions |-> <<>>]

\* run_agent(input, agent_executor, config) is called and iterated.
RunAgent ==
    /\ stream = NoStream
    /\ stream' = [NoStream EXCEPT !.pc = "running"]
    /\ UNCHANGED <<trades, receipts, lastOp, swapVars, ledgerCall, opportunities, clock,
                   conns>>

\* The executor yields a chunk and the loop body runs for it.  An agent
\* chunk with a content is emitted.  A tools chunk with a content is
\* emitted and handle_agent_action called, for a trade action with the
\* wallet reference ref; handle_agent_action is a plain function that
\* returns None, so the await of its result raises TypeError, which the
\* except clause turns into an error event, the last of the stream.
ChunkYielded(chunk, ref) ==
    /\ stream.pc = "running"
    /\ Len(stream.yielded) < MaxChunks
    /\ LET y == Append(stream.yielded, chunk)
       IN  IF chunk.kind = "tools" /\ chunk.content # ""
           THEN /\ stream' = [stream EXCEPT
                                 !.pc = "closed", !.yielded = y,
                                 !.events = @ \o <<ChunkEvent(chunk),
                                                   ErrorEvent("TypeError")>>]
                /\ IF chunk.name \in TradeActions
                   THEN HandleAgentActionRun(chunk.name, ContentAmount(chunk.content), ref)
                   ELSE UNCHANGED <<trades, receipts, lastOp, swapVars, ledgerCall,
                                    opportunities, clock, conns>>
           ELSE /\ stream' = [stream EXCEPT
                                 !.yielded = y,
                                 !.events = IF chunk.kind = "agent" /\ chunk.content # ""
                                            THEN Append(@, ChunkEvent(chunk)) ELSE @]
                /\ UNCHANGED <<trades, receipts, lastOp, swapVars, ledgerCall,
                               opportunities, clock, conns>>

\* The executor stops: it has no more chunks, or it raises, which the except
\* clause turns into an error event.
ExecutorStopped(raises) ==
    /\ stream.pc = "running"
    /\ stream' = IF raises
                 THEN [stream EXCEPT !.pc = "closed", !.failed = TRUE,
                                     !.events = Append(@, ErrorEvent("executor"))]
                 ELSE [stream EXCEPT !.pc = "closed", !.ended = TRUE]
    /\ UNCHANGED <<trades, receipts, lastOp, swapVars, ledgerCall, opportunities, clock,
                   conns>>

\* The consumer has read the stream to its end.
StreamTaken ==
    /\ stream.pc = "closed"
    /\ stream' = NoStream
    /\ UNCHANGED <<trades, receipts, lastOp, swapVars, ledgerCall, opportunities, clock,
                   conns>>

\* Mutant: a run that has swapped records the trade in the ledger itself.
SwapOnUniswap_RecordsTrade(variant, amt, slippage) ==
    /\ lastSwap = NoSwap
    /\ lastTrade = NoTrade
    /\ \E r \in ValidateStep(NewRun(variant, amt, slippage, allowance)) :
          /\ lastSwap' = r
          /\ allowance' = r.allow
          /\ trades' = IF r.ret = "Successfully swapped" /\ Len(trades) < MaxTrades
                       THEN RecordTradeRun(trades, "0xA", r.tx, "PENDING").trades
                       ELSE trades
    /\ UNCHANGED <<otherVars, receipts, lastOp, stepVars>>

\* swap_on_uniswap(wallet, token_in, token_out, amount_in, recipient, slippage):
\* one whole run, called when no run's result is waiting for the caller.
SwapOnUniswap(variant, amt, slippage) ==
    /\ lastSwap = NoSwap
    /\ lastTrade = NoTrade
    /\ \E r \in ValidateStep(NewRun(variant, amt, slippage, allowance)) :
          /\ lastSwap' = r
          /\ allowance' = r.allow
    /\ UNCHANGED <<otherVars, ledgerVars>>

(***************************************************************************)
(* Specification.                                                          *)
(***************************************************************************)
NoOp == [op |-> "none", ref |-> "", tx |-> NULL, st |-> "", ret |-> "None",
         log |-> "none", pre |-> "None",
         looked |-> <<>>, out |-> NoLookups]

Init ==
    /\ trades = <<>>
    /\ receipts = [h \in Hashes |-> NoReceipt]
    /\ lastOp = NoOp
    /\ lastSwap = NoSwap
    /\ allowance = 0
    /\ lastApprove = NoApprove
    /\ lastMinOut = NoMinOut
    /\ lastTrade = NoTrade
    /\ noted = NothingNoted
    /\ ledgerCall = NoCall
    /\ opportunities = <<>>
    /\ clock = 0
    /\ conns = [p \in Procs |-> NoConn]
    /\ stream = NoStream

Next ==
    \/ \E ref \in WalletRefs, h \in HashArgs, st \in Statuses : RecordTrade(ref, h, st)
    \/ \E h \in HashArgs : GetTradeStatus(h)
    \/ UpdatePendingTrades
    \/ \E h \in Hashes, s \in {0, 1} : Mine(h, s)

Spec == Init /\ [][Next]_vars

\* record_trade on its own, called with and without a status.
RecordNext ==
    \E ref \in WalletRefs, h \in HashArgs, st \in StatusArgs : RecordTrade(ref, h, st)

RecordSpec == Init /\ [][RecordNext]_vars

\* The ledger with get_trade_status and update_pending_trades running step
\* by step, one call at a time, for trades recorded the way execute_trade
\* records them.
StepNext ==
    \/ \E h \in Hashes : ledgerCall = NoCall /\ RecordTrade("0xA", h, "PENDING")
    \/ \E h \in Hashes : StatusConnect(h)
    \/ StatusAnswer
    \/ SweepConnect
    \/ SweepLookup
    \/ SweepAnswer
    \/ SweepCommit
    \/ SweepInterrupted
    \/ CallTaken
    \/ \E h \in Hashes, s \in {0, 1} : Mine(h, s)

StepSpec == Init /\ [][StepNext]_vars

\* The opportunity operations of the ledger, one call at a time.
ArbitrageNext ==
    \/ \E profit \in ProfitTexts : RecordArbitrageOpportunity(profit)
    \/ \E k \in 1 .. MaxOpportunities : OpportunityClosed(k)
    \/ GetActiveArbitrageOpportunities
    \/ CallTaken

ArbitrageSpec == Init /\ [][ArbitrageNext]_vars

\* Trades recorded for two wallets as seconds pass, and get_recent_trades,
\* one call at a time.
RecentNext ==
    \/ \E ref \in RecentRefs, h \in HashArgs :
          ledgerCall = NoCall /\ RecordTrade(ref, h, "PENDING")
    \/ Tick
    \/ \E ref \in RecentRefs, limit \in 0 .. MaxTrades : GetRecentTrades(ref, limit)
    \/ CallTaken

RecentSpec == Init /\ [][RecentNext]_vars

\* Two callers of the ledger at once: trades recorded the way execute_trade
\* records them for the agent's wallet, asked for and swept, as transactions
\* are mined.
ConcurrentNext ==
    \/ \E p \in Procs, h \in Hashes : ConnCall(p, "record_trade", "0xA", h)
    \/ \E p \in Procs, h \in Hashes : ConnCall(p, "get_trade_status", "", h)
    \/ \E p \in Procs : ConnCall(p, "update_pending_trades", "", NULL)
    \/ \E p \in Procs : RecordStep(p)
    \/ \E p \in Procs : StatusStep(p)
    \/ \E p \in Procs : SweepStep(p)
    \/ \E p \in Procs : ConnTaken(p)
    \/ \E h \in Hashes, s \in {0, 1} : Mine(h, s)

ConcurrentSpec == Init /\ [][ConcurrentNext]_vars

\* The ledger as seconds pass: trades recorded the way execute_trade records
\* them, and reconciled.
FrameNext ==
    \/ \E ref \in WalletRefs, h \in Hashes : RecordTrade(ref, h, "PENDING")
    \/ Tick
    \/ \E h \in HashArgs : GetTradeStatus(h)
    \/ UpdatePendingTrades
    \/ \E h \in Hashes, s \in {0, 1} : Mine(h, s)

FrameSpec == Init /\ [][FrameNext]_vars

\* The swap workflow on its own.
SwapNext ==
    \/ \E variant \in Variants, amt \in AmountsIn, slippage \in Slippages :
          SwapOnUniswap(variant, amt, slippage)
    \/ SwapReturned

SwapSpec == Init /\ [][SwapNext]_vars

\* The agent's two ways to trade, swap_on_uniswap and execute_trade, one call
\* at a time.
DispatchNext ==
    \/ SwapNext
    \/ \E ref \in WalletRefs, amount_in \in 1 .. MaxAmount, min_amount_out \in 0 .. MaxAmount :
          ExecuteTrade(ref, amount_in, min_amount_out)
    \/ TradeReturned

DispatchSpec == Init /\ [][DispatchNext]_vars

\* run_agent streams, one at a time, with the trades their tools chunks make
\* handle_agent_action execute.
StreamNext ==
    \/ RunAgent
    \/ \E chunk \in Chunks, ref \in WalletRefs : ChunkYielded(chunk, ref)
    \/ \E raises \in BOOLEAN : ExecutorStopped(raises)
    \/ StreamTaken
    \/ TradeReturned

StreamSpec == Init /\ [][StreamNext]_vars

\* The agent's trade actions beside swap_on_uniswap with its default
\* slippage, one call at a time.
AgentNext ==
    \/ \E variant \in Variants, amt \in AmountsIn : SwapOnUniswap(variant, amt, 50)
    \/ SwapReturned
    \/ \E action \in TradeActions, amount \in ContentAmounts, ref \in WalletRefs :
          HandleAgentAction(action, amount, ref)
    \/ TradeReturned

AgentSpec == Init /\ [][AgentNext]_vars

\* swap_on_uniswap with its default slippage as seconds pass, one call at a
\* time.
ArgsNext ==
    \/ \E variant \in Variants, amt \in AmountsIn : SwapOnUniswap(variant, amt, 50)
    \/ SwapReturned
    \/ lastSwap = NoSwap /\ Tick

ArgsSpec == Init /\ [][ArgsNext]_vars

\* swap_on_uniswap called with its default slippage, the caller keeping the
\* last error.
MessageNext ==
    \/ \E variant \in Variants, amt \in AmountsIn : SwapOnUniswap(variant, amt, 50)
    \/ SwapNoted

MessageSpec == Init /\ [][MessageNext]_vars

\* approve called on its own, while the router spends what it is allowed.
ApproveNext ==
    \/ \E amount \in ApproveAmounts : Approve(amount)
    \/ \E n \in 1 .. MaxAmount : Spend(n)

ApproveSpec == Init /\ [][ApproveNext]_vars

\* The minimum output on its own.
MinOutNext ==
    \/ \E quote \in MinOutQuotes, slippage \in MinOutSlippages :
          ComputeMinOut(quote, slippage)
    \/ MinOutTaken

MinOutSpec == Init /\ [][MinOutNext]_vars

\* The ledger when the sweep keeps being run, every transaction is mined in
\* the end and no trade's receipt lookup raises in every sweep.
LiveNext ==
    \/ \E ref \in WalletRefs, h \in HashArgs, st \in Statuses :
          Len(trades) < MaxLiveTrades /\ RecordTrade(ref, h, st)
    \/ \E h \in HashArgs : GetTradeStatus(h)
    \/ UpdatePendingTrades
    \/ \E h \in Hashes, s \in {0, 1} : Mine(h, s)

LiveSpec ==
    /\ Init
    /\ [][LiveNext]_vars
    /\ \A h \in Hashes : WF_vars(\E s \in {0, 1} : Mine(h, s))
    /\ \A h \in Hashes : WF_vars(\E fails \in SUBSET (Hashes \ {h}) : Sweep(fails))

(***************************************************************************)
(* Properties of the trade ledger.                                         *)
(***************************************************************************)
\* The status a receipt lookup's answer stands for, written out.
StatusOfFlag(flag) ==
    IF flag = 1 THEN "COMPLETED" ELSE "FAILED"

\* C1: once a trade's stored status is COMPLETED or FAILED, a get_trade_status
\* call on its tx_hash returns that status, leaves it stored as it was and
\* issues no receipt lookup.
C1_TerminalCached ==
    (lastOp.op = "get_trade_status" /\ lastOp.pre \in Terminal) =>
        /\ lastOp.ret = lastOp.pre
        /\ StoredStatus(trades, lastOp.tx) = lastOp.pre
        /\ lastOp.looked = <<>>

\* A get_trade_status call has just answered for a trade stored as terminal.
C1_Witness ==
    /\ lastOp.op = "get_trade_status"
    /\ lastOp.pre = "COMPLETED"
    /\ lastOp.ret = "COMPLETED"
    /\ receipts[lastOp.tx] = Receipt(0)

\* C2: in every step of the ledger no trade is removed, and a trade's status
\* changes only from PENDING to COMPLETED or from PENDING to FAILED.
C2_StatusMonotone ==
    [][\A i \in DOMAIN trades :
          /\ i \in DOMAIN trades'
          /\ trades'[i].status # trades[i].status =>
                (trades[i].status = "PENDING" /\ trades'[i].status \in Terminal)]_vars

\* A sweep has just moved a PENDING trade to a terminal status while another
\* trade stored as terminal disagrees with its receipt and was left alone.
C2_Witness ==
    /\ lastOp.op = "update_pending_trades"
    /\ \E h \in DOMAIN lastOp.out :
          /\ ~lastOp.out[h].raised
          /\ lastOp.out[h].receipt.found
          /\ StoredStatus(trades, h) \in Terminal
    /\ \E g \in Hashes :
          /\ g \notin DOMAIN lastOp.out
          /\ receipts[g].found
          /\ StoredStatus(trades, g) \in Terminal
          /\ StoredStatus(trades, g) # StatusOfFlag(receipts[g].status)

\* C3: get_trade_status on a trade stored as PENDING whose receipt is on chain
\* (and whose receipt lookup does not raise) returns COMPLETED for success
\* flag 1 and FAILED otherwise, and that status is then the stored one.
C3_ReceiptMapped ==
    [][\A h \in Hashes :
          (/\ GetTradeStatus(h)
           /\ StoredStatus(trades, h) = "PENDING"
           /\ receipts[h].found
           /\ (h \in DOMAIN lastOp'.out => ~lastOp'.out[h].raised)) =>
              /\ lastOp'.ret = StatusOfFlag(receipts[h].status)
              /\ StoredStatus(trades', h) = StatusOfFlag(receipts[h].status)]_vars

\* A PENDING trade has just been resolved to FAILED by get_trade_status.
C3_Witness ==
    /\ lastOp.op = "get_trade_status"
    /\ lastOp.pre = "PENDING"
    /\ lastOp.looked = <<lastOp.tx>>
    /\ lastOp.out[lastOp.tx] = Returned(Receipt(0))
    /\ lastOp.ret = "FAILED"

\* C4: right after a successful record_trade of tx_hash h with the default
\* status, a get_trade_status(h) made while h has no receipt (and whose
\* receipt lookup does not raise) returns PENDING and leaves the stored
\* status PENDING.
C4_RoundTrip ==
    [][(/\ lastOp.op = "record_trade"
        /\ lastOp.ret = "True"
        /\ lastOp.st = "PENDING"
        /\ lastOp.tx # NULL
        /\ GetTradeStatus(lastOp.tx)
        /\ receipts[lastOp.tx] = NoReceipt
        /\ (lastOp.tx \in DOMAIN lastOp'.out => ~lastOp'.out[lastOp.tx].raised)) =>
           /\ lastOp'.ret = "PENDING"
           /\ StoredStatus(trades', lastOp.tx) = "PENDING"]_vars

\* get_trade_status has just answered PENDING for a recorded trade whose
\* receipt does not exist yet.
C4_Witness ==
    /\ lastOp.op = "get_trade_status"
    /\ lastOp.pre = "PENDING"
    /\ lastOp.looked = <<lastOp.tx>>
    /\ lastOp.out[lastOp.tx] = Returned(NoReceipt)
    /\ lastOp.ret = "PENDING"
    /\ StoredStatus(trades, lastOp.tx) = "PENDING"

\* C5: get_trade_status for a tx_hash that is not in the ledger returns None,
\* looks up no receipt and changes neither the ledger nor the chain.
C5_UnknownHash ==
    [][\A h \in HashArgs :
          (GetTradeStatus(h) /\ StoredStatus(trades, h) = "None") =>
              /\ lastOp'.ret = "None"
              /\ lastOp'.looked = <<>>
              /\ trades' = trades
              /\ receipts' = receipts]_vars

\* get_trade_status has just answered None for an unknown hash although the
\* chain holds a receipt for it and the ledger holds another trade.
C5_Witness ==
    /\ lastOp.op = "get_trade_status"
    /\ lastOp.tx \in Hashes
    /\ lastOp.pre = "None"
    /\ lastOp.ret = "None"
    /\ receipts[lastOp.tx].found
    /\ Len(trades) > 0

\* C6: in a sweep, a receipt lookup that raises for one PENDING trade k leaves
\* k PENDING and does not stop the sweep: every other PENDING trade whose
\* lookup answers with a receipt ends the sweep with the status of that receipt.
C6_SweepIsolation ==
    [][UpdatePendingTrades =>
        \A k \in DOMAIN trades :
            (trades[k].status = "PENDING" /\ lastOp'.out[trades[k].tx_hash].raised) =>
                /\ trades'[k].status = "PENDING"
                /\ \A j \in DOMAIN trades \ {k} :
                      (/\ trades[j].status = "PENDING"
                       /\ ~lastOp'.out[trades[j].tx_hash].raised
                       /\ lastOp'.out[trades[j].tx_hash].receipt.found) =>
                          trades'[j].status =
                              StatusOfFlag(lastOp'.out[trades[j].tx_hash].receipt.status)]_vars

\* A sweep has just run in which the lookup for the first pending trade, whose
\* receipt is on chain, raised, and the trade after it was resolved.
C6_Witness ==
    /\ lastOp.op = "update_pending_trades"
    /\ Len(lastOp.looked) = 2
    /\ lastOp.looked[1] \in Hashes
    /\ lastOp.out[lastOp.looked[1]].raised
    /\ receipts[lastOp.looked[1]].found
    /\ StoredStatus(trades, lastOp.looked[1]) = "PENDING"
    /\ lastOp.out[lastOp.looked[2]] = Returned(Receipt(1))
    /\ StoredStatus(trades, lastOp.looked[2]) = "COMPLETED"

\* C7: a sweep looks up every trade that is PENDING when it starts; a PENDING
\* trade whose lookup answers with a receipt gets the receipt's status, one
\* whose lookup answers that there is no receipt stays PENDING, and no other
\* trade and no other attribute changes.
C7_SweepRule ==
    [][UpdatePendingTrades =>
        /\ DOMAIN trades' = DOMAIN trades
        /\ \A i \in DOMAIN trades :
              IF trades[i].status = "PENDING"
              THEN /\ trades[i].tx_hash \in DOMAIN lastOp'.out
                   /\ LET o == lastOp'.out[trades[i].tx_hash]
                      IN  /\ (~o.raised /\ o.receipt.found) =>
                                trades'[i] = [trades[i] EXCEPT
                                                 !.status = StatusOfFlag(o.receipt.status)]
                          /\ (~o.raised /\ ~o.receipt.found) => trades'[i] = trades[i]
              ELSE trades'[i] = trades[i]]_vars

\* A sweep has just resolved one pending trade to FAILED and left another,
\* whose receipt does not exist yet, PENDING.
C7_Witness ==
    /\ lastOp.op = "update_pending_trades"
    /\ \E h \in DOMAIN lastOp.out, g \in DOMAIN lastOp.out :
          /\ lastOp.out[h] = Returned(Receipt(0))
          /\ StoredStatus(trades, h) = "FAILED"
          /\ lastOp.out[g] = Returned(NoReceipt)
          /\ StoredStatus(trades, g) = "PENDING"

\* C8: when sweeps keep being run, every transaction is mined in the end and
\* no trade's lookup raises forever, every trade stored as PENDING under a
\* tx_hash reaches COMPLETED or FAILED and keeps a terminal status for good.
C8_EventuallyResolved ==
    \A h \in Hashes :
        (StoredStatus(trades, h) = "PENDING") ~> [](StoredStatus(trades, h) \in Terminal)

\* A sweep has just resolved every trade it selected, each of them recorded
\* under a tx_hash, from PENDING to a terminal status.
C8_Witness ==
    /\ lastOp.op = "update_pending_trades"
    /\ Len(lastOp.looked) > 0
    /\ \A h \in DOMAIN lastOp.out :
          /\ h \in Hashes
          /\ lastOp.out[h].receipt.found
          /\ StoredStatus(trades, h) \in Terminal

\* The ids of the wallet table's rows.
WalletIds == {WalletTable[i].id : i \in DOMAIN WalletTable}

\* C22: a record_trade whose wallet reference matches no wallet row returns
\* False and leaves the trades table as it was, and every stored trade's
\* wallet_id is the id of a wallet row.
C22_UnknownWalletNoTrade ==
    /\ [](/\ \A i \in DOMAIN trades : trades[i].wallet_id \in WalletIds
          /\ (lastOp.op = "record_trade" /\ WalletLookup(lastOp.ref) = NoWallet) =>
                lastOp.ret = "False")
    /\ [][(/\ lastOp'.op = "record_trade"
            /\ WalletLookup(lastOp'.ref) = NoWallet
            /\ RecordTrade(lastOp'.ref, lastOp'.tx, lastOp'.st)) =>
                trades' = trades]_vars

\* A record_trade under the unknown reference, with a tx_hash not stored
\* yet, has returned False beside a trade of a known wallet.
C22_Witness ==
    /\ lastOp.op = "record_trade"
    /\ lastOp.ref = "0xX"
    /\ lastOp.tx = "0xb"
    /\ lastOp.ret = "False"
    /\ Len(trades) = 1
    /\ trades[1].tx_hash = "0xa"

\* C23: every stored trade without tx_hash has status FAILED, and a
\* record_trade called without a status stores FAILED when tx_hash is None
\* and PENDING when a tx_hash is given.
C23_NullHashFailed ==
    /\ \A i \in DOMAIN trades :
          trades[i].tx_hash = NULL => trades[i].status = "FAILED"
    /\ (lastOp.op = "record_trade" /\ lastOp.st = Omitted /\ lastOp.ret = "True") =>
          trades[Len(trades)].status = IF lastOp.tx = NULL THEN "FAILED" ELSE "PENDING"

\* A record_trade called without status and without tx_hash has stored a
\* PENDING trade.
C23_PendingWithoutHash ==
    /\ lastOp.op = "record_trade"
    /\ lastOp.st = Omitted
    /\ lastOp.tx = NULL
    /\ lastOp.ret = "True"
    /\ trades[Len(trades)] = [id |-> Len(trades), wallet_id |-> 1, tx_hash |-> NULL,
                              status |-> "PENDING", timestamp |-> 0]

\* A record_trade called without status stores PENDING when a tx_hash is
\* given.
C23_DefaultWithHash ==
    (/\ lastOp.op = "record_trade" /\ lastOp.st = Omitted /\ lastOp.ret = "True"
     /\ lastOp.tx # NULL) =>
          trades[Len(trades)].status = "PENDING"

\* C24: no two stored trades share a tx_hash that is not NULL, and a
\* record_trade whose tx_hash is already stored returns False and leaves the
\* trades table, the stored trade's status included, as it was.
C24_TxHashUnique ==
    /\ [](/\ \A i \in DOMAIN trades, j \in DOMAIN trades :
                (i # j /\ trades[i].tx_hash # NULL) =>
                    trades[i].tx_hash # trades[j].tx_hash
          /\ (lastOp.op = "record_trade" /\ lastOp.pre # "None") =>
                /\ lastOp.ret = "False"
                /\ StoredStatus(trades, lastOp.tx) = lastOp.pre)
    /\ [][(/\ lastOp'.op = "record_trade"
            /\ HashTaken(trades, lastOp'.tx)
            /\ RecordTrade(lastOp'.ref, lastOp'.tx, lastOp'.st)) =>
                trades' = trades]_vars

\* A record_trade of the known wallet under the tx_hash of a COMPLETED trade
\* has returned False, and the trade is still COMPLETED.
C24_Witness ==
    /\ lastOp.op = "record_trade"
    /\ lastOp.ref = "0xA"
    /\ lastOp.tx = "0xa"
    /\ lastOp.st = "PENDING"
    /\ lastOp.pre = "COMPLETED"
    /\ lastOp.ret = "False"
    /\ Len(trades) = 2
    /\ StoredStatus(trades, "0xa") = "COMPLETED"

\* C25: a ledger call that has returned has no connection open and has
\* committed what it changed, and no connection is open while a
\* get_transaction_receipt call of get_trade_status or update_pending_trades
\* is in progress.
C25_NoConnectionDuringLookup ==
    /\ ledgerCall.pc = "returned" => (~ledgerCall.con /\ trades = ledgerCall.work)
    /\ ledgerCall.net => ~ledgerCall.con

\* get_trade_status waits for the receipt of a PENDING trade with its
\* connection open.
C25_StatusLookupInScope ==
    /\ ledgerCall.op = "get_trade_status"
    /\ ledgerCall.net
    /\ ledgerCall.con

\* update_pending_trades waits for the receipt of its second trade with its
\* connection open and the first trade's UPDATE not committed.
C25_SweepLookupInScope ==
    /\ ledgerCall.op = "update_pending_trades"
    /\ ledgerCall.i = 2
    /\ ledgerCall.net
    /\ ledgerCall.con
    /\ ledgerCall.work # trades

\* A call that has returned has closed its connection scope and the table
\* holds what the call changed.
C25_CommittedOnReturn ==
    ledgerCall.pc = "returned" => (~ledgerCall.con /\ trades = ledgerCall.work)

\* C26: after update_pending_trades was interrupted between two trades,
\* every trade's stored status is its status before the sweep or the status
\* its receipt gives, and every trade the sweep had resolved before the
\* interruption is stored with its new status.
C26_InterruptedSweepKeepsResolved ==
    ledgerCall.pc = "interrupted" =>
        /\ \A k \in DOMAIN trades :
              \/ trades[k].status = ledgerCall.before[k].status
              \/ /\ trades[k].tx_hash # NULL
                 /\ receipts[trades[k].tx_hash].found
                 /\ trades[k].status = NewStatus(receipts[trades[k].tx_hash])
        /\ \A k \in 1 .. (ledgerCall.i - 1) :
              StoredStatus(ledgerCall.work, ledgerCall.pend[k]) # "PENDING" =>
                  StoredStatus(trades, ledgerCall.pend[k]) = StoredStatus(ledgerCall.work, ledgerCall.pend[k])

\* A sweep that had resolved its first trade to COMPLETED was interrupted
\* before its second trade: the first trade is stored as PENDING still.
C26_ResolvedLost ==
    /\ ledgerCall.pc = "interrupted"
    /\ ledgerCall.i = 2
    /\ StoredStatus(ledgerCall.work, ledgerCall.pend[1]) = "COMPLETED"
    /\ StoredStatus(trades, ledgerCall.pend[1]) = "PENDING"

\* After an interrupted sweep no trade's stored status differs from its
\* status before the sweep.
C26_NothingCorrupted ==
    ledgerCall.pc = "interrupted" => trades = ledgerCall.before

\* C29: what record_trade returns for a wallet reference that matches no
\* wallet differs from what it returns when the INSERT fails on a tx_hash
\* that is already stored.
C29_WalletNotFoundDistinct ==
    \A ref \in WalletRefs, known \in WalletRefs, h \in Hashes, g \in HashArgs :
        (/\ WalletLookup(ref) = NoWallet
         /\ WalletLookup(known) # NoWallet
         /\ HashTaken(trades, h)) =>
            RecordTradeRun(trades, ref, g, "PENDING").ret #
                RecordTradeRun(trades, known, h, "PENDING").ret

\* A record_trade of the known wallet under a stored tx_hash has returned
\* False, which is what a call under the unknown reference returns.
C29_SameResult ==
    /\ lastOp.op = "record_trade"
    /\ lastOp.ref = "0xA"
    /\ lastOp.pre # "None"
    /\ lastOp.ret = "False"
    /\ RecordTradeRun(trades, "0xX", "0xb", "PENDING").ret = "False"

\* The two failures of record_trade are logged with different texts.
C29_LoggedDistinct ==
    (lastOp.op = "record_trade" /\ lastOp.ret = "False") =>
        lastOp.log = IF WalletLookup(lastOp.ref) = NoWallet
                     THEN "Wallet not found for address"
                     ELSE "Error recording trade"

\* The rows get_active_arbitrage_opportunities has just returned.
OpportunitiesReturned ==
    ledgerCall.op = "get_active_arbitrage_opportunities"

\* C30: get_active_arbitrage_opportunities returns exactly the rows whose
\* status is DETECTED, each once, the row of the greater profit percentage,
\* taken as a signed decimal number, before the row of the smaller.
C30_ActiveByProfit ==
    OpportunitiesReturned =>
        /\ {ledgerCall.rows[k] : k \in DOMAIN ledgerCall.rows} =
               {opportunities[k] : k \in {n \in DOMAIN opportunities :
                                              opportunities[n].status = "DETECTED"}}
        /\ \A m \in DOMAIN ledgerCall.rows, n \in DOMAIN ledgerCall.rows :
               m < n => /\ ledgerCall.rows[m].id # ledgerCall.rows[n].id
                        /\ DecimalValue(ledgerCall.rows[m].profit_percentage) >=
                               DecimalValue(ledgerCall.rows[n].profit_percentage)

\* With opportunities of profit 9 and 10 recorded, the one of profit 9 is
\* listed first.
C30_NineBeforeTen ==
    /\ OpportunitiesReturned
    /\ Len(ledgerCall.rows) = 2
    /\ ledgerCall.rows[1].profit_percentage = <<"9">>
    /\ ledgerCall.rows[2].profit_percentage = <<"1", "0">>

\* The call changes no table and returns exactly the DETECTED rows, each
\* once.
C30_ReadOnlyFilter ==
    [][(ledgerCall' # ledgerCall /\ ledgerCall'.op = "get_active_arbitrage_opportunities") =>
          /\ opportunities' = opportunities
          /\ trades' = trades
          /\ Len(ledgerCall'.rows) = Len(DetectedFrom(opportunities, 1))
          /\ {ledgerCall'.rows[k] : k \in DOMAIN ledgerCall'.rows} =
                 {opportunities[k] : k \in {n \in DOMAIN opportunities :
                                                opportunities[n].status = "DETECTED"}}]_vars

\* C31: get_recent_trades changes no table and returns at most limit trades,
\* each once, all of the wallet the reference resolves to, none before a
\* trade with a later timestamp, and as many as the limit and the wallet's
\* trades allow; for a reference that matches no wallet it returns the
\* empty list.
C31_RecentTrades ==
    /\ [](ledgerCall.op = "get_recent_trades" =>
            LET rows == ledgerCall.rows
                own == TradesOfWallet(trades, WalletLookup(ledgerCall.ref))
            IN  /\ Len(rows) <= ledgerCall.limit
                /\ \A m \in DOMAIN rows : rows[m] \in own
                /\ \A m \in DOMAIN rows, n \in DOMAIN rows :
                      m < n => /\ rows[m] # rows[n]
                               /\ rows[m].timestamp >= rows[n].timestamp
                /\ \A m \in DOMAIN rows : \A r \in own :
                      r.timestamp > rows[m].timestamp =>
                          \E n \in DOMAIN rows : rows[n] = r
                /\ (Len(rows) < ledgerCall.limit) => Len(rows) = Cardinality(own)
                /\ WalletLookup(ledgerCall.ref) = NoWallet => rows = <<>>)
    /\ [][(ledgerCall' # ledgerCall /\ ledgerCall'.op = "get_recent_trades") =>
             (trades' = trades /\ opportunities' = opportunities /\ lastOp' = lastOp)]_vars

\* With two trades of the wallet stored in different seconds,
\* get_recent_trades with limit 1 has returned the newer one.
C31_Witness ==
    /\ ledgerCall.op = "get_recent_trades"
    /\ ledgerCall.ref = "0xA"
    /\ ledgerCall.limit = 1
    /\ Len(trades) = 2
    /\ trades[1].wallet_id = 1
    /\ trades[2].wallet_id = 1
    /\ trades[1].timestamp < trades[2].timestamp
    /\ ledgerCall.rows = <<trades[2]>>

\* get_recent_trades for the unknown reference has returned the empty list
\* while trades are stored.
C31_UnknownWitness ==
    /\ ledgerCall.op = "get_recent_trades"
    /\ ledgerCall.ref = "0xX"
    /\ Len(trades) = 2
    /\ ledgerCall.rows = <<>>

\* C32: no step removes a trade or changes the id, wallet, tx_hash or
\* timestamp of a stored trade, and a stored trade's status changes only in
\* a get_trade_status or update_pending_trades that looked its receipt up.
C32_OnlyStatusChanges ==
    [][/\ Len(trades') >= Len(trades)
       /\ \A k \in DOMAIN trades :
             /\ trades'[k].id = trades[k].id
             /\ trades'[k].wallet_id = trades[k].wallet_id
             /\ trades'[k].tx_hash = trades[k].tx_hash
             /\ trades'[k].timestamp = trades[k].timestamp
             /\ trades'[k].status # trades[k].status =>
                   /\ lastOp'.op \in {"get_trade_status", "update_pending_trades"}
                   /\ trades[k].tx_hash \in DOMAIN lastOp'.out
                   /\ ~lastOp'.out[trades[k].tx_hash].raised]_vars

\* A trade recorded in second 0 was resolved to COMPLETED by a sweep in a
\* later second, beside a trade recorded later that is PENDING still.
C32_Witness ==
    /\ lastOp.op = "update_pending_trades"
    /\ Len(trades) = 2
    /\ clock = 2
    /\ trades[1] = [id |-> 1, wallet_id |-> 1, tx_hash |-> "0xa", status |-> "COMPLETED",
                    timestamp |-> 0]
    /\ trades[2] = [id |-> 2, wallet_id |-> 1, tx_hash |-> "0xb", status |-> "PENDING",
                    timestamp |-> 1]
    /\ "0xa" \in DOMAIN lastOp.out

(***************************************************************************)
(* Properties of the swap workflow.                                        *)
(***************************************************************************)
\* The calls of a run that come after its balance check.
LaterCalls == {"allowance", "approve", "quoteExactInputSingle", "estimate_gas",
               "exactInputSingle"}

CallsMade(run) == {run.calls[i] : i \in DOMAIN run.calls}

\* C9: a run of swap_on_uniswap, in either copy, whose amount_in is a number
\* <= 0 returns the invalid-amount error and makes no collaborator call.
C9_InvalidAmountNoCalls ==
    (/\ lastSwap.ret # "none"
     /\ lastSwap.amount_in.parses
     /\ lastSwap.amount_in.atomic <= 0
     /\ ~lastSwap.amount_in.frac) =>
        /\ lastSwap.ret = "Error: Input amount must be greater than 0"
        /\ lastSwap.calls = <<>>
        /\ allowance = lastSwap.allow

\* A run with amount_in zero has just returned the invalid-amount error.
C9_Witness ==
    /\ lastSwap.variant = "agent"
    /\ lastSwap.amount_in = [parses |-> TRUE, atomic |-> 0, frac |-> FALSE]
    /\ lastSwap.ret = "Error: Input amount must be greater than 0"

\* C10: a run of swap_on_uniswap, in either copy, that has read a balance
\* which is zero or less than the requested atomic amount returns the
\* insufficient-balance error and calls neither approve nor the quote, the
\* gas estimate or the swap.
C10_InsufficientBalance ==
    (/\ lastSwap.ret # "none"
     /\ lastSwap.have >= 0
     /\ (lastSwap.have = 0 \/ lastSwap.have < lastSwap.need)) =>
        /\ lastSwap.ret = "Error: Insufficient balance"
        /\ CallsMade(lastSwap) \cap LaterCalls = {}

\* The same for the agent copy alone, where it holds.
C10_AgentCopy ==
    (/\ lastSwap.variant = "agent"
     /\ lastSwap.have >= 0
     /\ (lastSwap.have = 0 \/ lastSwap.have < lastSwap.need)) =>
        /\ lastSwap.ret = "Error: Insufficient balance"
        /\ CallsMade(lastSwap) \cap LaterCalls = {}

\* The trading copy has gone on to approve with a balance of zero, for an
\* amount_in below one atomic unit.
C10_TradingCopyProceeds ==
    /\ lastSwap.variant = "trading"
    /\ lastSwap.have = 0
    /\ lastSwap.need = 0
    /\ "allowance" \in CallsMade(lastSwap)
    /\ lastSwap.ret = "Successfully swapped"

\* C15: a run of swap_on_uniswap whose slippage is negative or at least 100
\* ends with an error before any collaborator call, and so submits no swap.
C15_InvalidSlippageRejected ==
    (/\ lastSwap.ret # "none"
     /\ (lastSwap.slippage < 0 \/ lastSwap.slippage >= 10000)) =>
        /\ lastSwap.ret # "Successfully swapped"
        /\ lastSwap.calls = <<>>
        /\ lastSwap.swap = "none"

\* A swap has been submitted and mined with slippage 150 % and a negative
\* minimum output.
C15_NegativeMinOutSubmitted ==
    /\ lastSwap.slippage = 15000
    /\ lastSwap.quote = 2
    /\ lastSwap.min_amount_out = -1
    /\ lastSwap.swap = "mined"
    /\ lastSwap.ret = "Successfully swapped"

\* A swap has been submitted and mined with slippage -50 % and a minimum
\* output above the quote.
C15_MinOutAboveQuote ==
    /\ lastSwap.slippage = -5000
    /\ lastSwap.quote = 2
    /\ lastSwap.min_amount_out = 3
    /\ lastSwap.swap = "mined"

\* C16: a run of swap_on_uniswap whose gas estimate raised or carries an
\* error returns the gas-estimation error and does not call the swap; a run
\* of execute_trade whose gas estimate raised or is 0 returns None, logging
\* the failed estimate when it is 0, and neither calls the client's
\* execute_trade nor records a trade.
C16_GasFailureNoSubmit ==
    /\ lastSwap.gas \in {"raised", "error"} =>
           /\ lastSwap.ret = "Error estimating gas"
           /\ lastSwap.swap = "none"
           /\ "exactInputSingle" \notin CallsMade(lastSwap)
           /\ lastSwap.calls[Len(lastSwap.calls)] = "estimate_gas"
    /\ lastTrade.gas \in {"raised", "zero"} =>
           /\ lastTrade.ret = NULL
           /\ lastTrade.calls = <<"estimate_gas">>
           /\ lastTrade.tx = NULL
           /\ lastTrade.recorded = "None"
           /\ (lastTrade.gas = "zero" => lastTrade.log = "Failed to estimate gas")

\* A run of swap_on_uniswap has ended on a gas estimate carrying an error.
C16_Witness ==
    /\ lastSwap.gas = "error"
    /\ lastSwap.quote = 2
    /\ lastSwap.ret = "Error estimating gas"

\* A run of execute_trade has ended on a gas estimate of 0.
C16_TradeWitness ==
    /\ lastTrade.gas = "zero"
    /\ lastTrade.ret = NULL
    /\ lastTrade.calls = <<"estimate_gas">>

\* C17: when the router's quote call reverts or raises, get_uniswap_quote
\* raises, no quote and no minimum output are taken, and the run of
\* swap_on_uniswap returns the quote error with the quote call as its last
\* call: no gas estimate, no swap.
C17_QuoteFailureSurfaces ==
    /\ \A call \in QuoteCalls :
           call.kind \in {"reverted", "raised"} => GetUniswapQuote(call).raised
    /\ lastSwap.quoteCall \in {"reverted", "raised"} =>
           /\ lastSwap.ret = "Error getting quote"
           /\ lastSwap.quote = -1
           /\ lastSwap.min_amount_out = -1
           /\ lastSwap.gas = "none"
           /\ lastSwap.swap = "none"
           /\ CallsMade(lastSwap) \cap {"estimate_gas", "exactInputSingle"} = {}
           /\ lastSwap.calls[Len(lastSwap.calls)] = "quoteExactInputSingle"

\* A run of swap_on_uniswap has ended on a reverted quote call, after an
\* approval.
C17_Witness ==
    /\ lastSwap.quoteCall = "reverted"
    /\ lastSwap.approval = <<"Approved successfully">>
    /\ lastSwap.ret = "Error getting quote"

\* The step of swap_on_uniswap the i-th call of a run belongs to: 2 balance
\* check (with the conversion to atomic units), 3 approve, 4 quote, 5 gas
\* estimate, 6 submit; step 1, validation, calls nothing.  Asset.fetch is
\* called for token_in first and for token_out after the swap.
StepOfCall(run, i) ==
    LET name == run.calls[i]
    IN  IF name = "Asset.fetch" THEN (IF i = 1 THEN 2 ELSE 6)
        ELSE IF name \in {"address.balance", "balanceOf"} THEN 2
        ELSE IF name \in {"allowance", "approve"} THEN 3
        ELSE IF name = "quoteExactInputSingle" THEN 4
        ELSE IF name = "estimate_gas" THEN 5
        ELSE 6

\* The run made a call of step k.
Reached(run, k) ==
    \E i \in DOMAIN run.calls : StepOfCall(run, i) = k

\* C18: in a run of swap_on_uniswap the calls come in the order of the steps
\* validate, balance check, approve, quote, gas estimate, submit, none of
\* them made twice; a step is reached only when the step before it
\* succeeded; a step that failed is the last one reached, and a swap is
\* reported only after all six.
C18_StepOrder ==
    lastSwap.ret # "none" =>
        /\ \A i, j \in DOMAIN lastSwap.calls :
               i < j => StepOfCall(lastSwap, i) <= StepOfCall(lastSwap, j)
        /\ \A name \in LaterCalls :
               Cardinality({i \in DOMAIN lastSwap.calls : lastSwap.calls[i] = name}) <= 1
        /\ Reached(lastSwap, 2) =>
               /\ lastSwap.amount_in.parses
               /\ lastSwap.amount_in.atomic > 0 \/ lastSwap.amount_in.frac
        /\ Reached(lastSwap, 3) =>
               /\ Reached(lastSwap, 2)
               /\ lastSwap.need >= 0
               /\ lastSwap.have >= lastSwap.need
               /\ lastSwap.variant = "agent" => lastSwap.have > 0
        /\ Reached(lastSwap, 4) =>
               /\ Reached(lastSwap, 3)
               /\ lastSwap.approval \in {<<"Already approved">>, <<"Approved successfully">>}
               /\ lastSwap.allow >= lastSwap.need \/ lastSwap.swap = "mined"
        /\ Reached(lastSwap, 5) =>
               /\ Reached(lastSwap, 4)
               /\ lastSwap.quoteCall = "answered"
        /\ Reached(lastSwap, 6) =>
               /\ Reached(lastSwap, 5)
               /\ lastSwap.gas = "ok"
        /\ lastSwap.ret = "Successfully swapped" =>
               /\ Reached(lastSwap, 6)
               /\ lastSwap.swap = "mined"
        /\ lastSwap.ret = "Error: Input amount must be greater than 0" =>
               lastSwap.calls = <<>>
        /\ lastSwap.ret \in {"Error: Insufficient balance", "Error checking balance"} =>
               ~Reached(lastSwap, 3)
        /\ (lastSwap.approval # <<>> /\ StartsWithError(lastSwap.approval)) =>
               /\ lastSwap.ret = "Error approving Uniswap Router as spender"
               /\ ~Reached(lastSwap, 4)
        /\ lastSwap.quoteCall \in {"reverted", "raised"} =>
               /\ lastSwap.ret = "Error getting quote"
               /\ ~Reached(lastSwap, 5)
        /\ lastSwap.gas \in {"raised", "error"} =>
               /\ lastSwap.ret = "Error estimating gas"
               /\ ~Reached(lastSwap, 6)
        /\ lastSwap.swap \in {"raised", "reverted"} =>
               lastSwap.ret = "Error executing swap"

\* A run of the agent copy has gone through all six steps, approving on the
\* way, and reported the swap.
C18_Witness ==
    /\ lastSwap.variant = "agent"
    /\ lastSwap.calls = <<"Asset.fetch", "address.balance", "allowance", "approve",
                          "quoteExactInputSingle", "estimate_gas", "exactInputSingle",
                          "Asset.fetch">>
    /\ lastSwap.ret = "Successfully swapped"

\* What swap_on_uniswap returns, by the fixed text each message begins with.
SwapMessages ==
    {"Successfully swapped", "Error: Input amount must be greater than 0",
     "Error: Insufficient balance", "Error checking balance",
     "Error approving Uniswap Router as spender", "Error getting quote",
     "Error estimating gas", "Error executing swap", "Error in swap operation"}

\* C19: every run of swap_on_uniswap returns one of its messages, and an
\* error message when the amount is unparsable or a collaborator raised or
\* reported failure.
C19_AlwaysReturnsString ==
    lastSwap # NoSwap =>
        /\ lastSwap.ret \in SwapMessages
        /\ (\/ ~lastSwap.amount_in.parses
            \/ (lastSwap.approval # <<>> /\ StartsWithError(lastSwap.approval))
            \/ lastSwap.quoteCall \in {"reverted", "raised"}
            \/ lastSwap.gas \in {"raised", "error"}
            \/ lastSwap.swap \in {"raised", "reverted"}) =>
               lastSwap.ret \in SwapMessages \ {"Successfully swapped"}

\* A run with an unparsable amount_in has returned the general error.
C19_Witness ==
    /\ ~lastSwap.amount_in.parses
    /\ lastSwap.variant = "agent"
    /\ lastSwap.calls = <<>>
    /\ lastSwap.ret = "Error in swap operation"

\* C20: the message a failed run of swap_on_uniswap returns begins with a
\* text that no run failing at another step returns: when it is the text of
\* the error noted before, the two runs failed at the same step.
C20_PrefixNamesStep ==
    (/\ lastSwap.ret \notin {"none", "Successfully swapped"}
     /\ noted[1] = lastSwap.ret) =>
        noted[2] = FailedStep(lastSwap)

\* A run has failed at the balance check, on a balance read that raised,
\* with the general error, the text noted for a run that failed at
\* validation, on an unparsable amount_in.
C20_SameTextTwoSteps ==
    /\ noted = <<"Error in swap operation", "validation">>
    /\ lastSwap.calls = <<"Asset.fetch", "address.balance">>
    /\ FailedStep(lastSwap) = "balance check"
    /\ lastSwap.ret = "Error in swap operation"

\* The texts of the approval, quote, gas and swap errors and of the invalid
\* amount each come from one step only.
C20_SpecificTexts ==
    (/\ noted[1] = lastSwap.ret
     /\ lastSwap.ret \in {"Error: Input amount must be greater than 0",
                          "Error: Insufficient balance", "Error checking balance",
                          "Error approving Uniswap Router as spender",
                          "Error getting quote", "Error estimating gas",
                          "Error executing swap"}) =>
        noted[2] = FailedStep(lastSwap)

\* C21: swap_on_uniswap returns the success message only for an invocation
\* that was mined with success, and the message shows the input amount as
\* given, the minimum output (min_amount_out in whole units, not the quote)
\* and the invocation's transaction hash; a reverted invocation gives
\* "Error executing swap" and no such message.
C21_SuccessOnlyWhenMined ==
    /\ lastSwap.ret = "Successfully swapped" =>
          /\ lastSwap.swap = "mined"
          /\ lastSwap.said.amount_in = lastSwap.amount_in
          /\ lastSwap.said.amount_out.parses
          /\ ToAtomicAmount(lastSwap.said.amount_out) = lastSwap.min_amount_out
          /\ lastSwap.tx \in Hashes
          /\ lastSwap.said.tx = lastSwap.tx
    /\ lastSwap.swap = "reverted" =>
          /\ lastSwap.ret = "Error executing swap"
          /\ lastSwap.said = NoMessage

\* A swap quoted at 2 with the default slippage was mined: the message shows
\* the minimum output, 1, and the hash.
C21_Witness ==
    /\ lastSwap.ret = "Successfully swapped"
    /\ lastSwap.slippage = 50
    /\ lastSwap.quote = 2
    /\ lastSwap.min_amount_out = 1
    /\ lastSwap.said.amount_out.atomic = 1
    /\ lastSwap.said.tx = "0xb"

\* A swap was broadcast and reverted.
C21_RevertWitness ==
    /\ lastSwap.swap = "reverted"
    /\ lastSwap.tx = "0xa"
    /\ lastSwap.ret = "Error executing swap"

\* The calls that ask the exchange for a quote or a price.
QuoteCallNames == {"quoteExactInputSingle", "get_token_price"}

\* C27: whenever a swap is submitted, by swap_on_uniswap or by
\* handle_agent_action's execute_trade, a quote was obtained before and the
\* minimum output passed is what the slippage leaves of that quote.
C27_MinOutFromQuote ==
    /\ lastSwap.swap # "none" =>
          /\ lastSwap.quoteCall = "answered"
          /\ lastSwap.min_amount_out = MinAmountOuts[lastSwap.quote, lastSwap.slippage]
    /\ (/\ lastTrade.by \in TradeActions
        /\ \E i \in DOMAIN lastTrade.calls : lastTrade.calls[i] = "execute_trade") =>
          \E i \in DOMAIN lastTrade.calls, j \in DOMAIN lastTrade.calls :
              /\ lastTrade.calls[i] \in QuoteCallNames
              /\ lastTrade.calls[j] = "execute_trade"
              /\ i < j

\* handle_agent_action has submitted a trade of 2 USDC for BTC with a
\* minimum output of 1.98 BTC, 99 % of the input amount, and no quote.
C27_MinOutFromInput ==
    /\ lastTrade.by = "trade_usdc_for_btc"
    /\ lastTrade.amount_in = 2 * TradeUnit
    /\ lastTrade.min_amount_out = 198
    /\ lastTrade.calls = <<"estimate_gas", "execute_trade", "record_trade">>
    /\ lastTrade.ret \in Hashes

\* Every swap that swap_on_uniswap submits has the minimum output computed
\* from the quote answered for it.
C27_SwapPath ==
    lastSwap.swap # "none" =>
        /\ lastSwap.quoteCall = "answered"
        /\ lastSwap.min_amount_out = MinAmountOuts[lastSwap.quote, lastSwap.slippage]

\* C28: no run of swap_on_uniswap, with the approve and get_uniswap_quote
\* calls it makes, changes the trades table, the opportunities table or
\* anything else of the ledger, and the trades table changes only in a step
\* in which record_trade has stored a trade.
C28_SwapNeverWrites ==
    [][/\ (lastSwap' # lastSwap /\ lastSwap' # NoSwap) =>
             /\ trades' = trades
             /\ opportunities' = opportunities
             /\ lastOp' = lastOp
       /\ trades' # trades =>
             /\ lastTrade'.recorded = "True"
             /\ lastTrade'.calls[Len(lastTrade'.calls)] = "record_trade"
             /\ lastSwap' = lastSwap]_vars

\* With one trade in the ledger, a run of swap_on_uniswap has approved the
\* router, taken a quote and swapped: the ledger holds that one trade still.
C28_Witness ==
    /\ Len(trades) = 1
    /\ lastSwap.ret = "Successfully swapped"
    /\ lastSwap.quoteCall = "answered"
    /\ \E i \in DOMAIN lastSwap.calls : lastSwap.calls[i] = "approve"
    /\ lastOp = NoOp

\* How often a run made the call of this name.
TimesCalled(run, name) ==
    Cardinality({i \in DOMAIN run.calls : run.calls[i] = name})

\* C33: in one run of swap_on_uniswap the allowance read, the approval, the
\* quote, the gas estimate and the swap submission are each made at most
\* once, whatever their outcome.
C33_NoRetry ==
    \A name \in LaterCalls : TimesCalled(lastSwap, name) <= 1

\* A run whose gas estimate raised has returned the gas error after one
\* approval, one quote and one gas estimate.
C33_Witness ==
    /\ lastSwap.gas = "raised"
    /\ lastSwap.ret = "Error estimating gas"
    /\ TimesCalled(lastSwap, "approve") = 1
    /\ TimesCalled(lastSwap, "quoteExactInputSingle") = 1
    /\ TimesCalled(lastSwap, "estimate_gas") = 1
    /\ TimesCalled(lastSwap, "exactInputSingle") = 0

\* The run of execute_trade has called the client's execute_trade.
Submitted(run) ==
    \E i \in DOMAIN run.calls : run.calls[i] = "execute_trade"

\* C34: every run of execute_trade that attempted a submission has recorded
\* one trade: PENDING under the tx_hash when a hash came back, FAILED when
\* none did.
C34_EveryAttemptRecorded ==
    Submitted(lastTrade) =>
        /\ lastTrade.calls[Len(lastTrade.calls)] = "record_trade"
        /\ lastTrade.recorded = "True"
        /\ trades # <<>>
        /\ trades[Len(trades)].tx_hash = lastTrade.tx
        /\ trades[Len(trades)].status =
               IF lastTrade.ret = NULL THEN "FAILED" ELSE "PENDING"

\* A run whose submission came back without a hash has returned None
\* without calling record_trade: the ledger is empty.
C34_FailedUnrecorded ==
    /\ lastTrade.wallet = "0xA"
    /\ lastTrade.calls = <<"estimate_gas", "execute_trade">>
    /\ lastTrade.ret = NULL
    /\ lastTrade.recorded = "None"
    /\ trades = <<>>

\* A run whose submission came back with a hash has called record_trade
\* with it and the status PENDING, and a trade record_trade stored is the
\* last row.
C34_SuccessRecorded ==
    (Submitted(lastTrade) /\ lastTrade.ret # NULL) =>
        /\ lastTrade.calls[Len(lastTrade.calls)] = "record_trade"
        /\ lastTrade.tx = lastTrade.ret
        /\ lastTrade.recorded = "True" =>
              /\ trades[Len(trades)].tx_hash = lastTrade.ret
              /\ trades[Len(trades)].status = "PENDING"

\* C37: every tx_hash a run of execute_trade has returned is the tx_hash of
\* a stored trade, also when record_trade returned False.
C37_ReturnedHashRecorded ==
    (lastTrade.ret \in Hashes) =>
        \E k \in DOMAIN trades : trades[k].tx_hash = lastTrade.ret

\* A run for a wallet reference that matches no wallet has returned the
\* hash of its transaction, record_trade having returned False: no trade
\* has that hash.
C37_UnknownWalletUnrecorded ==
    /\ lastTrade.wallet = "0xX"
    /\ lastTrade.ret = "0xa"
    /\ lastTrade.recorded = "False"
    /\ StoredStatus(trades, "0xa") = "None"

\* A hash returned by a run whose record_trade failed on a duplicate hash,
\* or succeeded, is the hash of a stored trade.
C37_KnownWalletRecorded ==
    (lastTrade.ret \in Hashes /\ WalletLookup(lastTrade.wallet) # NoWallet) =>
        \E k \in DOMAIN trades : trades[k].tx_hash = lastTrade.ret

\* C36: when the receipt lookup raises for a trade stored as PENDING,
\* get_trade_status returns None, which is also what it returns for every
\* tx_hash the ledger does not hold, and the ledger is as it was, the trade
\* still PENDING.
C36_RaisedLookupLeavesPending ==
    [][(/\ lastOp'.op = "get_trade_status"
        /\ GetTradeStatus(lastOp'.tx)
        /\ StoredStatus(trades, lastOp'.tx) = "PENDING"
        /\ lastOp'.out[lastOp'.tx].raised) =>
            /\ lastOp'.ret = "None"
            /\ trades' = trades
            /\ StoredStatus(trades', lastOp'.tx) = "PENDING"
            /\ \A h \in HashArgs : \A o \in LookupOutcomes(h) :
                   StoredStatus(trades, h) = "None" =>
                       GetTradeStatusRun(trades, h, o).ret = lastOp'.ret]_vars

\* A PENDING trade whose transaction is mined was asked for, the lookup
\* raised, and the trade is still PENDING while another hash is unknown.
C36_Witness ==
    /\ lastOp.op = "get_trade_status"
    /\ lastOp.tx = "0xa"
    /\ lastOp.pre = "PENDING"
    /\ lastOp.looked = <<"0xa">>
    /\ lastOp.out["0xa"].raised
    /\ lastOp.ret = "None"
    /\ receipts["0xa"].found
    /\ StoredStatus(trades, "0xa") = "PENDING"
    /\ StoredStatus(trades, "0xb") = "None"

\* C35: the parameters a run of swap_on_uniswap submits to exactInputSingle
\* are the parameters it had gas-estimated: the token addresses and the
\* recipient as given, fee 3000, the deadline 1800 seconds after the
\* parameters were assembled, amountIn the atomic amount that was compared
\* with the balance and approved, amountOutMinimum the minimum output
\* computed from the quote, and sqrtPriceLimitX96 0.
C35_SubmittedAsEstimated ==
    /\ lastSwap.gas # "none" =>
          lastSwap.estimated =
              [tokenIn |-> "token_in_address", tokenOut |-> "token_out_address",
               fee |-> 3000, recipient |-> "recipient", deadline |-> clock + 1800,
               amountIn |-> ToAtomicAmount(lastSwap.amount_in),
               amountOutMinimum |-> MinAmountOuts[lastSwap.quote, lastSwap.slippage],
               sqrtPriceLimitX96 |-> 0]
    /\ lastSwap.swap # "none" =>
          /\ lastSwap.submitted = lastSwap.estimated
          /\ lastSwap.submitted.amountIn = lastSwap.need
          /\ lastSwap.have >= lastSwap.submitted.amountIn
          /\ \E i \in DOMAIN lastSwap.approval : lastSwap.approval[i] # "Error"
    /\ lastSwap.swap = "none" => lastSwap.submitted = NoArgs

\* A swap of 2 atomic units quoted at 2 was submitted at second 1 with a
\* minimum output of 1 and the deadline 1801.
C35_Witness ==
    /\ lastSwap.swap = "mined"
    /\ clock = 1
    /\ lastSwap.quote = 2
    /\ lastSwap.submitted =
           [tokenIn |-> "token_in_address", tokenOut |-> "token_out_address",
            fee |-> 3000, recipient |-> "recipient", deadline |-> 1801,
            amountIn |-> 2, amountOutMinimum |-> 1, sqrtPriceLimitX96 |-> 0]
    /\ lastSwap.estimated = lastSwap.submitted

\* The trades of table trs all are PENDING or have the status their
\* transaction's receipt gives.
StatusesFollowReceipts(trs) ==
    \A i \in DOMAIN trs :
        \/ trs[i].status = "PENDING"
        \/ /\ receipts[trs[i].tx_hash].found
           /\ trs[i].status = NewStatus(receipts[trs[i].tx_hash])

\* C38: with get_trade_status calls and update_pending_trades sweeps of two
\* callers interleaved in every way, and receipts that never change once
\* they exist, the stored status of a trade recorded as PENDING is always
\* PENDING or the status of its receipt, in the table and in what a
\* connection has written and not yet committed, and a terminal status is
\* never replaced by a different one.
C38_StatusFollowsReceipt ==
    /\ [](/\ StatusesFollowReceipts(trades)
          /\ \A p \in Procs : conns[p].writing => StatusesFollowReceipts(conns[p].work))
    /\ [][\A i \in DOMAIN trades :
              trades[i].status # "PENDING" =>
                  /\ i \in DOMAIN trades'
                  /\ trades'[i] = trades[i]]_vars

\* A get_trade_status call has completed a trade while a sweep that had
\* selected the same trade as PENDING is about to update it.
C38_Witness ==
    /\ conns[1].op = "get_trade_status"
    /\ conns[1].pc = "done"
    /\ conns[1].tx = "0xa"
    /\ conns[1].ret = "COMPLETED"
    /\ conns[2].op = "update_pending_trades"
    /\ conns[2].pc = "update"
    /\ conns[2].pend[conns[2].i] = "0xa"
    /\ StoredStatus(trades, "0xa") = "COMPLETED"

\* C39: when two record_trade calls for a known wallet and the same tx_hash,
\* which the ledger did not hold when either was called, have both
\* returned, exactly one has returned True and the ledger holds exactly
\* one trade with that tx_hash.
C39_OneInsertWins ==
    (/\ \A p \in Procs : /\ conns[p].op = "record_trade"
                         /\ conns[p].pc = "done"
                         /\ conns[p].fresh
     /\ conns[1].tx = conns[2].tx) =>
        /\ Cardinality({p \in Procs : conns[p].ret = "True"}) = 1
        /\ Cardinality({i \in DOMAIN trades : trades[i].tx_hash = conns[1].tx}) = 1

\* Two record_trade calls for 0xa ran at once: the first caller's INSERT
\* found the database locked, the second caller's went through.
C39_Witness ==
    /\ \A p \in Procs : /\ conns[p].op = "record_trade"
                        /\ conns[p].pc = "done"
                        /\ conns[p].fresh
                        /\ conns[p].tx = "0xa"
    /\ conns[1].ret = "False"
    /\ conns[2].ret = "True"
    /\ StoredStatus(trades, "0xa") = "PENDING"

\* Two record_trade calls for 0xa run at once: the first caller has
\* committed its row, the second caller's INSERT is still to come.
C39_UniqueWitness ==
    /\ conns[1].op = "record_trade" /\ conns[1].pc = "done" /\ conns[1].ret = "True"
    /\ conns[2].op = "record_trade" /\ conns[2].pc = "select" /\ conns[2].fresh
    /\ conns[1].tx = "0xa" /\ conns[2].tx = "0xa"

\* The events run_agent owes for the chunks q: one for each agent or tools
\* chunk with a content, in the order of the chunks.
EventsOwed(q) ==
    LET owed == SelectSeq(q, LAMBDA c : c.kind \in {"agent", "tools"} /\ c.content # "")
    IN  [i \in DOMAIN owed |-> ChunkEvent(owed[i])]

\* C40: run_agent emits one event for every agent or tools chunk with a
\* content that the executor yields, in the executor's order; handling a
\* tools chunk does not end the stream, which closes only when the executor
\* stops; and there is no error event unless the executor failed.
C40_EveryChunkEmitted ==
    /\ SelectSeq(stream.events, LAMBDA e : e.event # "error") = EventsOwed(stream.yielded)
    /\ stream.pc = "closed" => stream.ended \/ stream.failed
    /\ ~stream.failed => \A i \in DOMAIN stream.events : stream.events[i].event # "error"

\* What remains of C40: the events other than error events are those owed
\* for the chunks yielded, in their order.
C40_EmittedInOrder ==
    SelectSeq(stream.events, LAMBDA e : e.event # "error") = EventsOwed(stream.yielded)

\* A stream of an agent chunk and a tools chunk ended after the tools
\* chunk's event with an error event, the executor not having failed.
C40_ToolsChunkEndsStream ==
    /\ stream.pc = "closed"
    /\ ~stream.failed
    /\ ~stream.ended
    /\ Len(stream.yielded) = 2
    /\ stream.yielded[2].kind = "tools"
    /\ stream.yielded[2].name = "get_balance"
    /\ Len(stream.events) = 3
    /\ stream.events[3].event = "error"

(***************************************************************************)
(* Properties of approve.                                                  *)
(***************************************************************************)
\* The approval transactions among the calls of an approve call.
Approvals(calls) == {i \in DOMAIN calls : calls[i] = "approve"}

\* C11: when an approve call returned "Approved successfully" and the next
\* approve call, with nothing spent in between, asks for the same or a
\* smaller amount, the two calls together submit one approval transaction:
\* the second submits none, and returns "Already approved" once it has read
\* the allowance.
C11_ApproveIdempotent ==
    (/\ lastApprove.prev.ret = <<"Approved successfully">>
     /\ ~lastApprove.prev.spent
     /\ lastApprove.amount.parses
     /\ lastApprove.amount.value <= lastApprove.prev.amount.value) =>
        /\ Cardinality(Approvals(lastApprove.prev.calls)) +
             Cardinality(Approvals(lastApprove.calls)) <= 1
        /\ lastApprove.args = -1
        /\ (~lastApprove.spent => allowance = lastApprove.pre)
        /\ (lastApprove.outcome # "read raised" =>
               lastApprove.ret = <<"Already approved">>)

\* A second approve call for a smaller amount has just returned "Already
\* approved" after a successful first one.
C11_Witness ==
    /\ lastApprove.prev.ret = <<"Approved successfully">>
    /\ lastApprove.prev.amount.value = 2
    /\ ~lastApprove.prev.spent
    /\ lastApprove.amount = [parses |-> TRUE, value |-> 1]
    /\ lastApprove.ret = <<"Already approved">>
    /\ lastApprove.calls = <<"allowance">>

\* C12: an approve call makes at most one wallet.invoke_contract submission,
\* the allowance read counted.
C12_AtMostOneSubmission ==
    Len(lastApprove.calls) <= 1

\* An approve call has submitted both the allowance read and the approval.
C12_TwoSubmissions ==
    /\ lastApprove.pre = 0
    /\ lastApprove.amount = [parses |-> TRUE, value |-> 1]
    /\ lastApprove.calls = <<"allowance", "approve">>

\* C13: an approve call that has read an allowance below the requested amount
\* submits an approval for exactly that amount; it returns "Approved
\* successfully" only when the approval's receipt reports success, the
\* allowance being the requested amount until the router spends of it, and
\* it returns an error, the allowance left as it was, when the approval
\* reverts or a submission raises.
C13_ApproveExactAmount ==
    /\ (/\ lastApprove.amount.parses
        /\ lastApprove.pre < lastApprove.amount.value
        /\ lastApprove.outcome # "read raised") =>
           /\ lastApprove.calls = <<"allowance", "approve">>
           /\ lastApprove.args = lastApprove.amount.value
    /\ lastApprove.ret = <<"Approved successfully">> =>
           /\ lastApprove.outcome = "success"
           /\ (~lastApprove.spent => allowance = lastApprove.amount.value)
    /\ lastApprove.outcome \in {"read raised", "amount raised", "approve raised",
                               "reverted"} =>
           /\ StartsWithError(lastApprove.ret)
           /\ (~lastApprove.spent => allowance = lastApprove.pre)

\* An approve call for 2 with nothing allowed has just succeeded.
C13_Witness ==
    /\ lastApprove.pre = 0
    /\ lastApprove.amount = [parses |-> TRUE, value |-> 2]
    /\ lastApprove.args = 2
    /\ lastApprove.ret = <<"Approved successfully">>
    /\ allowance = 2

\* An approve call's approval has just reverted.
C13_RevertWitness ==
    /\ lastApprove.outcome = "reverted"
    /\ lastApprove.ret = <<"Error", "Approval failed">>

(***************************************************************************)
(* Properties of the minimum output.                                       *)
(***************************************************************************)
\* floor(quote * (1 - slippage / 100)) in exact arithmetic, slippage in
\* hundredths of a percent.
ExactMinOut(quote, slippage) ==
    FloorDiv(Mul(quote, FromInt(10000 - slippage)), 10000)

\* C14: for every quote and every slippage in [0, 100) the minimum output
\* computed is floor(quote * (1 - slippage / 100)).
C14_MinOutIsFloor ==
    (lastMinOut # NoMinOut /\ lastMinOut.slippage >= 0 /\ lastMinOut.slippage < 10000) =>
        lastMinOut.out = [neg |-> FALSE,
                          digits |-> ExactMinOut(lastMinOut.quote, lastMinOut.slippage)]

\* The three computations the claim names give the value it names.
C14_NamedExamples ==
    /\ (lastMinOut.quote = FromInt(1000) /\ lastMinOut.slippage = 100) =>
           lastMinOut.out.digits = FromInt(990)
    /\ (lastMinOut.quote = FromInt(1000) /\ lastMinOut.slippage = 50) =>
           lastMinOut.out.digits = FromInt(995)
    /\ (/\ lastMinOut.quote =
              FromDecimal(<<5, 0, 0, 0, 0, 0, 0, 0, 0, 0, 0, 0, 0, 0, 0, 0, 0>>)
        /\ lastMinOut.slippage = 50) =>
           lastMinOut.out.digits =
               FromDecimal(<<4, 9, 7, 5, 0, 0, 0, 0, 0, 0, 0, 0, 0, 0, 0, 0, 0>>)

\* Quote 5 with slippage 80 % has given 0, where the floor is 1.
C14_BelowFloor ==
    /\ lastMinOut.quote = FromInt(5)
    /\ lastMinOut.slippage = 8000
    /\ lastMinOut.out.digits = FromInt(0)
    /\ ExactMinOut(lastMinOut.quote, lastMinOut.slippage) = FromInt(1)
====
